---- MODULE Spec2Model ----
(***************************************************************************)
(* Model of .github/bin/error-log-analyzer.py: the per-line classifier     *)
(* error_classifier, the slang cross-check validate_slang with             *)
(* join_until_regex, the per-project loop over the error-log files and the *)
(* per-project statistics with their sanity asserts.                       *)
(*                                                                         *)
(* Text is modelled by what the regular expressions of the script can see  *)
(* of it: a log line is a record of its locator, its "syntax error at      *)
(* token" token and the other phrases the script searches for; a slang     *)
(* output line is a record of whether it names the source path, of its     *)
(* :line:col: locator and of whether it is an unknown/undeclared complaint.*)
(***************************************************************************)
EXTENDS Integers, Sequences, FiniteSets, TLC

\* The run over one project: pc is the position in the script, the other
\* names are the script's own; nfiles and nlines count the log files and
\* the log lines the loops have taken.
VARIABLES pc, project_name, nfiles, source_path, src, state,
          project_errors, nlines, all, error_types

\* error_pos of error_classifier, as its last call left it: None when the
\* search found no locator, else the locator found.
VARIABLES classifier_error_pos

\* A single call of one of the script's functions: its arguments and what
\* it returned.
VARIABLES arg, ret

vars == <<pc, project_name, nfiles, source_path, src, state,
          project_errors, nlines, all, error_types, classifier_error_pos,
          arg, ret>>

\* ------------------------------------------------------------- bounds
\* log files iterated per project
MaxFiles == 2
\* log lines read per project
MaxLines == 2

\* ------------------------------------------------ program constants
\* src[max(line_number-30, 0):line_number]
ModuleWindow == 30
\* src[max(line_number-2, 0):line_number]
MacroWindow == 2
\* abs(start_char - err.start_char) <= 10
ColumnTolerance == 10

\* ---------------------------------------------------- class State(Enum)
NORMAL == "NORMAL"
MODULE_DEFINE == "MODULE_DEFINE"
SLANG_VERIFIED == "SLANG_VERIFIED"
MISC_PREPROCESSOR == "MISC_PREPROCESSOR"
MACRO_CALL_SYNTAX == "MACRO_CALL_SYNTAX"

State == {NORMAL, MODULE_DEFINE, SLANG_VERIFIED, MISC_PREPROCESSOR,
          MACRO_CALL_SYNTAX}

\* the name `state` before the first file of the run assigns it
Unbound == "unbound"

\* ------------------------------------------- the 13 category strings
Categories ==
    {"undefined", "slang-verified-error", "related-to-slang-validated-error",
     "macro-call-in-module-params", "caused-by-macro-call-in-module-params",
     "unresolved-macro", "test-designed-to-fail", "misc-preprocessor",
     "misc-preprocessor-related", "standalone-header",
     "hit-preprocessor-failsafe", "likely-unhandled-macro-call",
     "related-to-likely-unhandled-macro-call"}

\* the directive names of the negative lookahead (?!include|define|...)
Directives == {"include", "define", "undef", "ifdef", "ifndef"}

Max(a, b) == IF a >= b THEN a ELSE b
Min(a, b) == IF a <= b THEN a ELSE b
Abs(x) == IF x < 0 THEN -x ELSE x

\* Optional values: None is <<>>, a value v is <<v>>.
None == <<>>
Some(v) == <<v>>

\* ------------------------------------------------------ log line text
\* A token as printed between the quotes of `syntax error at token "..."`:
\* bt says it starts with a backtick, word is the text after it.
Tok(bt, word) == [bt |-> bt, word |-> word]

\* The tokens the model draws log lines from.
Tokens == {Tok(FALSE, "x"), Tok(TRUE, "FOO"), Tok(TRUE, "include"),
           Tok(FALSE, "define"), Tok(FALSE, "endmodule")}

\* The locators: <<>> when the line has no :N:N: substring, else
\* <<line, col>> or <<line, col1, col2>> for the text :line:col1-col2:
Locators == {<<>>, <<1, 5>>, <<2, 5, 7>>}

\* A log line: loc is its locator, token is None or Some(token) of the
\* phrase `syntax error at token "<token>"`, expanding says the line holds
\* 'Error expanding macro identifier', failpath that the ivtest fail/error
\* file-name pattern matches it, sentinel that it holds '"Error!"'.
LinesAt(locators) ==
    [loc : locators,
     token : {None} \cup {Some(t) : t \in Tokens},
     expanding : BOOLEAN,
     failpath : BOOLEAN,
     sentinel : BOOLEAN]

\* the log lines a single call is tried on
LogLines == LinesAt(Locators)

\* the log lines the log files of the run are made of
FileLines == LinesAt({<<>>, <<2, 5, 7>>})

\* re.search("syntax error at token", line)
ReSyntaxError(l) == l.token # None

\* re.search(r'syntax error at token "(?:(?!include|define|undef|ifdef|ifndef).)+', line)
\* One character after the quote must pass the lookahead: a backtick always
\* does, a word does unless it starts with a directive name.
ReSyntaxErrorNonDirective(l) ==
    /\ l.token # None
    /\ \/ l.token[1].bt
       \/ l.token[1].word \notin Directives

\* re.search(r'syntax error at token "`(?:(?!include|define|undef|ifdef|ifndef).)+', line)
ReSyntaxErrorMacro(l) ==
    /\ l.token # None
    /\ l.token[1].bt
    /\ l.token[1].word \notin Directives

\* re.search("syntax error at token \"endmodule\"", line)
ReSyntaxErrorEndmodule(l) ==
    /\ l.token # None
    /\ l.token[1] = Tok(FALSE, "endmodule")

\* re.search(r'Error expanding macro identifier', line)
ReExpandingMacro(l) == l.expanding

\* re.search(r'ivtest\/(\w+\/)+.*(fail|error)\w*\.\w+', line)
ReIvtestFail(l) == l.failpath

\* re.search(r'"Error!"', line)
ReSentinel(l) == l.sentinel

\* ------------------------------------------------------- source text
\* A source line is named by what the two source searches can see of it.
SrcKinds == {"code", "module", "endmodule", "macro", "directive"}

\* re.search("module", text)
HasModule(k) == k \in {"module", "endmodule"}

\* re.search(r'`(?:(?!include|define|undef|ifdef|ifndef).)+', text)
HasMacroCall(k) == k = "macro"

\* The 1-based line numbers of the Python slice s[lo:hi] of a list of
\* length n (0 <= lo, 0 <= hi).
SliceLines(n, lo, hi) == (lo + 1) .. Min(hi, n)

\* re.search("module", '\n'.join(src[max(line_number-30, 0):line_number]))
ModuleNearby(s, line_number) ==
    \E i \in SliceLines(Len(s), Max(line_number - ModuleWindow, 0), line_number) :
        HasModule(s[i])

\* re.search(r'`(?:...).)+', '\n'.join(src[max(line_number-2, 0):line_number]))
MacroCallNearby(s, line_number) ==
    \E i \in SliceLines(Len(s), Max(line_number - MacroWindow, 0), line_number) :
        HasMacroCall(s[i])

\* The source files of the model.
Sources == {<<"code", "code">>, <<"module", "code">>, <<"code", "macro">>}

\* The source paths of the model, and path[-4:] for each.
SourcePaths == {"rtl/top.sv", "rtl/defs.svh"}
Suffix4(path) == IF path = "rtl/defs.svh" THEN ".svh" ELSE "p.sv"

\* The project names of the model, and `'ivtest' in project` /
\* `'rsd' in project` for each.
ProjectNames == {"ibex", "ivtest", "rsd"}
NameContains(project, part) == project = part

\* ------------------------------------------------ class ErrorContainer
ErrorContainer(project, path, line_number, start_char, end_char, error_text) ==
    [project |-> project,
     source_path |-> path,
     line_number |-> line_number,
     start_char |-> start_char,
     end_char |-> end_char,
     category |-> "undefined",
     error |-> error_text,
     slang_output |-> None,
     rg_output |-> None]

\* ------------------------------------------------- error_classifier
\* Each rule maps the pair (category, state) the rules before it left.
CS(category, st) == [category |-> category, state |-> st]

\* if re.search(r'Error expanding macro identifier', line)
RuleUnresolvedMacro(cs, l) ==
    IF ReExpandingMacro(l) THEN CS("unresolved-macro", cs.state) ELSE cs

\* the rule of state SLANG_VERIFIED taken in state MISC_PREPROCESSOR too
RuleSlangRelated_AnyDerivedState(cs) ==
    IF cs.state \in {SLANG_VERIFIED, MISC_PREPROCESSOR}
    THEN [category |-> "related-to-slang-validated-error", state |-> cs.state]
    ELSE cs

\* the rule of state SLANG_VERIFIED taken only for the lines a rule before
\* it has categorized
RuleSlangRelated_OnlyCategorized(cs) ==
    IF cs.state = SLANG_VERIFIED /\ cs.category # "undefined"
    THEN [category |-> "related-to-slang-validated-error", state |-> cs.state]
    ELSE cs

\* the rule of state SLANG_VERIFIED written as one that only fills in an
\* 'undefined' category
RuleSlangRelated_OnlyUndefined(cs) ==
    IF cs.state = SLANG_VERIFIED /\ cs.category = "undefined"
    THEN [category |-> "related-to-slang-validated-error", state |-> cs.state]
    ELSE cs

\* if state == State.SLANG_VERIFIED
RuleSlangRelated(cs) ==
    IF cs.state = SLANG_VERIFIED
    THEN CS("related-to-slang-validated-error", cs.state)
    ELSE cs

\* the chain without its first branch, the one of the .svh files
RuleTokenChain_NoHeaderBranch(cs, l, s, path, line_number) ==
    IF ReSyntaxErrorMacro(l)
    THEN IF ModuleNearby(s, line_number)
         THEN [category |-> "macro-call-in-module-params", state |-> MODULE_DEFINE]
         ELSE [category |-> "misc-preprocessor", state |-> MISC_PREPROCESSOR]
    ELSE IF cs.state = MISC_PREPROCESSOR /\ ReSyntaxError(l)
    THEN [category |-> "misc-preprocessor-related", state |-> cs.state]
    ELSE IF cs.state = MODULE_DEFINE /\ ReSyntaxError(l)
    THEN [category |-> "caused-by-macro-call-in-module-params", state |-> cs.state]
    ELSE cs

\* the chain with the two branches of the derived states tried before the
\* branch of the backtick token
RuleTokenChain_DerivedFirst(cs, l, s, path, line_number) ==
    IF Suffix4(path) = ".svh" /\ ReSyntaxErrorNonDirective(l)
    THEN [category |-> "standalone-header", state |-> cs.state]
    ELSE IF cs.state = MISC_PREPROCESSOR /\ ReSyntaxError(l)
    THEN [category |-> "misc-preprocessor-related", state |-> cs.state]
    ELSE IF cs.state = MODULE_DEFINE /\ ReSyntaxError(l)
    THEN [category |-> "caused-by-macro-call-in-module-params", state |-> cs.state]
    ELSE IF ReSyntaxErrorMacro(l)
    THEN IF ModuleNearby(s, line_number)
         THEN [category |-> "macro-call-in-module-params", state |-> MODULE_DEFINE]
         ELSE [category |-> "misc-preprocessor", state |-> MISC_PREPROCESSOR]
    ELSE cs

\* the if / elif chain on the token of the syntax error
RuleTokenChain(cs, l, s, path, line_number) ==
    IF Suffix4(path) = ".svh" /\ ReSyntaxErrorNonDirective(l)
    THEN CS("standalone-header", cs.state)
    ELSE IF ReSyntaxErrorMacro(l)
    THEN IF ModuleNearby(s, line_number)
         THEN CS("macro-call-in-module-params", MODULE_DEFINE)
         ELSE CS("misc-preprocessor", MISC_PREPROCESSOR)
    ELSE IF cs.state = MISC_PREPROCESSOR /\ ReSyntaxError(l)
    THEN CS("misc-preprocessor-related", cs.state)
    ELSE IF cs.state = MODULE_DEFINE /\ ReSyntaxError(l)
    THEN CS("caused-by-macro-call-in-module-params", cs.state)
    ELSE IF cs.state = MODULE_DEFINE /\ ReSyntaxError(l)
    THEN CS("caused-by-macro-call-in-module-params", cs.state)
    ELSE cs

\* the rule of endmodule leaving the state as it is
RuleEndmodule_KeepsState(cs, l) == cs

\* the rule of endmodule taken on any syntax error, whatever its token
RuleEndmodule_AnyToken(cs, l) ==
    IF cs.state = MODULE_DEFINE /\ ReSyntaxError(l)
    THEN [category |-> cs.category, state |-> NORMAL]
    ELSE cs

\* if state == State.MODULE_DEFINE and ... "endmodule"
RuleEndmodule(cs, l) ==
    IF cs.state = MODULE_DEFINE /\ ReSyntaxErrorEndmodule(l)
    THEN CS(cs.category, NORMAL)
    ELSE cs

\* the rule of state MACRO_CALL_SYNTAX written as one that only fills in an
\* 'undefined' category
RuleMacroCallRelated_OnlyUndefined(cs, l) ==
    IF /\ cs.state = MACRO_CALL_SYNTAX /\ ReSyntaxError(l)
       /\ cs.category = "undefined"
    THEN [category |-> "related-to-likely-unhandled-macro-call",
          state |-> cs.state]
    ELSE cs

\* if state == State.MACRO_CALL_SYNTAX and ... "syntax error at token"
RuleMacroCallRelated(cs, l) ==
    IF cs.state = MACRO_CALL_SYNTAX /\ ReSyntaxError(l)
    THEN CS("related-to-likely-unhandled-macro-call", cs.state)
    ELSE cs

\* the ivtest rule taken in every project
RuleIvtest_AnyProject(cs, l, project) ==
    IF ReIvtestFail(l)
    THEN [category |-> "test-designed-to-fail", state |-> cs.state]
    ELSE cs

\* the ivtest rule putting the state back to NORMAL with the category
RuleIvtest_ResetsState(cs, l, project) ==
    IF NameContains(project, "ivtest") /\ ReIvtestFail(l)
    THEN [category |-> "test-designed-to-fail", state |-> NORMAL]
    ELSE cs

\* the ivtest rule written as one that only fills in an 'undefined'
\* category
RuleIvtest_OnlyUndefined(cs, l, project) ==
    IF /\ cs.category = "undefined"
       /\ NameContains(project, "ivtest") /\ ReIvtestFail(l)
    THEN [category |-> "test-designed-to-fail", state |-> cs.state]
    ELSE cs

\* if 'ivtest' in project and the fail/error path pattern matches
RuleIvtest(cs, l, project) ==
    IF NameContains(project, "ivtest") /\ ReIvtestFail(l)
    THEN CS("test-designed-to-fail", cs.state)
    ELSE cs

\* the rsd rule written as one that only fills in an 'undefined' category
RuleRsd_OnlyUndefined(cs, l, project) ==
    IF /\ cs.category = "undefined"
       /\ NameContains(project, "rsd") /\ ReSentinel(l)
    THEN [category |-> "hit-preprocessor-failsafe", state |-> cs.state]
    ELSE cs

\* the rsd rule writing a tag that is none of the 13
RuleRsd_OtherTag(cs, l, project) ==
    IF NameContains(project, "rsd") /\ ReSentinel(l)
    THEN [category |-> "preprocessor-failsafe", state |-> cs.state]
    ELSE cs

\* if 'rsd' in project and the line holds "Error!"
RuleRsd(cs, l, project) ==
    IF NameContains(project, "rsd") /\ ReSentinel(l)
    THEN CS("hit-preprocessor-failsafe", cs.state)
    ELSE cs

\* the last rule moving the state whatever category the rules before left
RuleLikelyMacroCall_StateAlways(cs, l, s, line_number) ==
    IF ReSyntaxError(l) /\ MacroCallNearby(s, line_number)
    THEN [category |-> IF cs.category = "undefined"
                       THEN "likely-unhandled-macro-call" ELSE cs.category,
          state |-> MACRO_CALL_SYNTAX]
    ELSE cs

\* if err.category == 'undefined' and a syntax error and a macro call in
\* src[max(line_number-2, 0):line_number]
RuleLikelyMacroCall(cs, l, s, line_number) ==
    IF /\ cs.category = "undefined"
       /\ ReSyntaxError(l)
       /\ MacroCallNearby(s, line_number)
    THEN CS("likely-unhandled-macro-call", MACRO_CALL_SYNTAX)
    ELSE cs

\* error_pos = re.search(r":[0-9]+:[0-9]+(-[0-9]+)*:", line); the fields of
\* error_pos[0]: split(':')[1], split(':')[2].split('-')[0] and [-1].
LineNumberOf(l) == l.loc[1]
StartCharOf(l) == l.loc[2]
EndCharOf(l) == l.loc[Len(l.loc)]

\* error_classifier(src, line, state, project); source_path is the global
\* the function reads.  ok is FALSE when error_pos is None and error_pos[0]
\* raises TypeError.
error_classifier(s, l, st, project, path) ==
    IF l.loc = <<>>
    THEN [ok |-> FALSE, err |-> None, state |-> st]
    ELSE
      LET n == LineNumberOf(l)
          e0 == ErrorContainer(project, path, n, StartCharOf(l), EndCharOf(l), l)
          r1 == RuleUnresolvedMacro(CS(e0.category, st), l)
          r2 == RuleSlangRelated(r1)
          r3 == RuleTokenChain(r2, l, s, path, n)
          r4 == RuleEndmodule(r3, l)
          r5 == RuleMacroCallRelated(r4, l)
          r6 == RuleRsd(RuleIvtest(r5, l, project), l, project)
          r7 == RuleLikelyMacroCall(r6, l, s, n)
      IN  [ok |-> TRUE,
           err |-> Some([e0 EXCEPT !.category = r7.category]),
           state |-> r7.state]

\* ------------------------------------------------------ slang output
\* A line of slang's stderr: path says re.search(re.escape(srcpath), line)
\* matches, loc is <<>> or the <<line, col>> of its first :N:N: substring,
\* unk says r'error:( \w*)*(unknown|undeclared)' matches, empty that the
\* line is the empty string.
SlangLine(path, loc, unk) ==
    [path |-> path, loc |-> loc, unk |-> unk, empty |-> FALSE]
EmptyLine == [path |-> FALSE, loc |-> <<>>, unk |-> FALSE, empty |-> TRUE]

\* A string built by concatenating lines is the sequence of the non-empty
\* lines concatenated: '' is <<>>.
Text(l) == IF l.empty THEN <<>> ELSE <<l>>

\* The loop of join_until_regex from strings[i] on.
RECURSIVE JoinLoop(_, _, _, _)
JoinLoop(strings, i, new_src, joined) ==
    IF i > Len(strings) THEN new_src
    ELSE LET l == strings[i] IN
         IF ~l.path
         THEN JoinLoop(strings, i + 1, new_src, joined \o Text(l))
         ELSE IF joined # <<>>
         THEN JoinLoop(strings, i + 1, Append(new_src, joined), Text(l))
         ELSE JoinLoop(strings, i + 1, new_src, Text(l))

\* join_until_regex(strings, regex)
join_until_regex(strings) == JoinLoop(strings, 1, <<>>, <<>>)

\* re.search(r":[0-9]+:[0-9]+:", line) on a joined message: the locator of
\* the first line in it that has one, None when no line has one.
RECURSIVE FirstLocator(_, _)
FirstLocator(msg, i) ==
    IF i > Len(msg) THEN None
    ELSE IF msg[i].loc # <<>> THEN Some(msg[i].loc)
    ELSE FirstLocator(msg, i + 1)

\* the filter taking every message for important
is_slang_line_important_Always(msg) == TRUE

\* is_slang_line_important(line)
is_slang_line_important(msg) == \A i \in 1..Len(msg) : ~msg[i].unk

\* the condition with the column distance strictly below the tolerance
SlangConfirms_StrictlyLess(msg, line_number, start_char, e) ==
    /\ line_number = e.line_number
    /\ Abs(start_char - e.start_char) < ColumnTolerance
    /\ is_slang_line_important(msg)

\* the condition without the comparison of the line numbers
SlangConfirms_ColumnOnly(msg, line_number, start_char, e) ==
    /\ Abs(start_char - e.start_char) <= ColumnTolerance
    /\ is_slang_line_important(msg)

\* the condition of the if in the loop of validate_slang
SlangConfirms(msg, line_number, start_char, e) ==
    /\ line_number = e.line_number
    /\ Abs(start_char - e.start_char) <= ColumnTolerance
    /\ is_slang_line_important(msg)

\* The loop `for line in errors` of validate_slang from errors[i] on;
\* ok is FALSE when error_pos is None and error_pos[0] raises TypeError.
RECURSIVE ValidateLoop(_, _, _, _)
ValidateLoop(errors, i, e, st) ==
    IF i > Len(errors) THEN [ok |-> TRUE, err |-> e, state |-> st]
    ELSE LET error_pos == FirstLocator(errors[i], 1) IN
         IF error_pos = None THEN [ok |-> FALSE, err |-> e, state |-> st]
         ELSE IF SlangConfirms(errors[i], error_pos[1][1], error_pos[1][2], e)
         THEN ValidateLoop(errors, i + 1,
                           [e EXCEPT !.category = "slang-verified-error"],
                           SLANG_VERIFIED)
         ELSE ValidateLoop(errors, i + 1, e, st)

\* validate_slang(src, line, state, project, srcpath, err), given what
\* get_slang_output(srcpath) returns
validate_slang(st, e, slang_output) ==
    LET e1 == IF e.slang_output = None
              THEN [e EXCEPT !.slang_output = Some(slang_output)]
              ELSE e
    IN  ValidateLoop(join_until_regex(e1.slang_output[1]), 1, e1, st)

\* the block taking any output of rg, the empty one too, for a hit
InclusionScan_AnyOutput(e, rg_output) ==
    IF e.rg_output = None
    THEN [e EXCEPT !.rg_output = Some(rg_output),
                   !.category = "standalone-header"]
    ELSE e

\* the block `if err.rg_output is None:` of the per-file loop, given what
\* get_rg_output(project_root, filename) returns
InclusionScan(e, rg_output) ==
    IF e.rg_output = None
    THEN [e EXCEPT !.rg_output = Some(rg_output),
                   !.category = IF rg_output[1] # ""
                                THEN "standalone-header" ELSE @]
    ELSE e

\* The copy of err kept in project_errors: its category and position.  The
\* fields the script never reads again after the append are not kept.
deepcopy(e) ==
    [category |-> e.category,
     line_number |-> e.line_number,
     start_char |-> e.start_char,
     end_char |-> e.end_char]

\* an append that also gives the records already kept the category of the
\* record appended
AppendRecord_Relabels(errors, e) ==
    Append([i \in 1..Len(errors) |->
               [errors[i] EXCEPT !.category = e.category]],
           deepcopy(e))

\* an append that leaves out the records still 'undefined'
AppendRecord_SkipUndefined(errors, e) ==
    IF e.category = "undefined" THEN errors ELSE Append(errors, deepcopy(e))

\* project_errors[project_name].append(deepcopy(err))
AppendRecord(errors, e) == Append(errors, deepcopy(e))

\* the body with rg run for every record, whatever category the rules left
ClassifyLine_ScanAlways(s, l, st, project, path, rg_output, slang_output) ==
    LET r == error_classifier(s, l, st, project, path) IN
    IF ~r.ok THEN [ok |-> FALSE, err |-> None, state |-> st]
    ELSE LET e1 == InclusionScan(r.err[1], rg_output)
         IN  IF e1.category = "undefined"
             THEN LET v == validate_slang(r.state, e1, slang_output)
                  IN  [ok |-> v.ok, err |-> Some(v.err),
                       state |-> IF v.ok THEN v.state ELSE r.state]
             ELSE [ok |-> TRUE, err |-> Some(e1), state |-> r.state]

\* The body of `for line in f`: error_classifier, the inclusion scan and
\* validate_slang, each run only while the category is 'undefined'.
ClassifyLine(s, l, st, project, path, rg_output, slang_output) ==
    LET r == error_classifier(s, l, st, project, path) IN
    IF ~r.ok THEN [ok |-> FALSE, err |-> None, state |-> st]
    ELSE LET e1 == IF r.err[1].category = "undefined"
                   THEN InclusionScan(r.err[1], rg_output)
                   ELSE r.err[1]
         IN  IF e1.category = "undefined"
             THEN LET v == validate_slang(r.state, e1, slang_output)
                  IN  [ok |-> v.ok, err |-> Some(v.err),
                       state |-> IF v.ok THEN v.state ELSE r.state]
             ELSE [ok |-> TRUE, err |-> Some(e1), state |-> r.state]

\* --------------------------------------------- what the tools return
\* slang diagnostics at the positions the log lines can name
DiagAt1 == SlangLine(TRUE, <<1, 5>>, FALSE)
DiagAt2 == SlangLine(TRUE, <<2, 15>>, FALSE)
UnknownAt1 == SlangLine(TRUE, <<1, 5>>, TRUE)
NoteLine == SlangLine(FALSE, <<>>, FALSE)

\* proc.stderr.decode('utf-8').split('\n') of the slang runs of the model
SlangRuns ==
    {<<EmptyLine>>,
     <<DiagAt1, EmptyLine>>,
     <<DiagAt1, NoteLine, DiagAt2, EmptyLine>>,
     <<UnknownAt1, DiagAt2, DiagAt1, EmptyLine>>,
     <<NoteLine, DiagAt1, EmptyLine>>}

\* proc.stdout.decode('utf-8').split('\n') of the rg runs of the model
RgRuns == {<<"">>, <<"hit", "">>}

\* ------------------------------------------------- log file metadata
\* What the loop over verible_error_files reads of one file name:
\* exit_code, tool, len(source_path_matches), and whether a line of the
\* log holds a path qualified by the project name.
ToolNames == {"syntax", "project", "preprocessor"}
ToolContains(tool, part) == tool = part
LogFiles ==
    [exit_code : {1, 2}, tool : ToolNames, matches : 0..2, qualified : BOOLEAN]

NoPath == "None"

\* ------------------------------------------------- per-project stats
RECURSIVE CountCategory(_, _)
CountCategory(errors, c) ==
    IF errors = <<>> THEN 0
    ELSE (IF Head(errors).category = c THEN 1 ELSE 0)
         + CountCategory(Tail(errors), c)

\* for error in project_errors[project_name]: error_types[error.category] += 1
CountErrorTypes(errors) == [c \in Categories |-> CountCategory(errors, c)]

RECURSIVE SumOver(_, _)
SumOver(f, keys) ==
    IF keys = {} THEN 0
    ELSE LET k == CHOOSE x \in keys : TRUE
         IN  f[k] + SumOver(f, keys \ {k})

\* the five asserts under "check if the output is sane"
SanityAsserts(types, total) ==
    /\ SumOver(types, DOMAIN types) = total
    /\ \/ types["macro-call-in-module-params"] = 0
       \/ types["macro-call-in-module-params"] > 0
    /\ \/ types["related-to-slang-validated-error"] = 0
       \/ types["slang-verified-error"] > 0
    /\ \/ types["misc-preprocessor-related"] = 0
       \/ types["misc-preprocessor-related"] > 0
    /\ \/ types["related-to-likely-unhandled-macro-call"] = 0
       \/ types["likely-unhandled-macro-call"] > 0

\* ---------------------------------------------------------- the run
\* the state of the file before, kept
StartOfFileState_Kept == state

\* state = State.NORMAL, before the lines of a log file are read
StartOfFileState == NORMAL

\* One iteration of the loop over the projects, from
\* project_errors = defaultdict(list) on.
Init ==
    /\ pc = "files"
    /\ project_name \in ProjectNames
    /\ nfiles = 0
    /\ source_path = NoPath
    /\ src = <<>>
    /\ state = Unbound
    /\ project_errors = <<>>
    /\ nlines = 0
    /\ all = 0
    /\ error_types = [c \in Categories |-> 0]
    /\ classifier_error_pos = None
    /\ arg = None
    /\ ret = None

\* "Per-project stats" to the asserts, reached when the loop over the
\* files ends or breaks.
Stats ==
    /\ all' = Len(project_errors)
    /\ error_types' = CountErrorTypes(project_errors)
    /\ pc' = IF SanityAsserts(CountErrorTypes(project_errors), Len(project_errors))
             THEN "reported" ELSE "assert_failed"

\* a file the loop passes over: exit code not 1, the preprocessor tool, or
\* the project tool with at most one candidate source
SkipFile ==
    /\ pc = "files" /\ nfiles < MaxFiles
    /\ \E f \in LogFiles :
        /\ \/ f.exit_code # 1
           \/ ToolContains(f.tool, "preprocessor")
           \/ f.matches <= 1 /\ ToolContains(f.tool, "project")
        /\ nfiles' = nfiles + 1
        /\ source_path' = IF f.exit_code = 1 /\ ~ToolContains(f.tool, "preprocessor")
                          THEN NoPath ELSE source_path
        /\ UNCHANGED <<pc, project_name, src, state, project_errors, nlines,
                       all, error_types, classifier_error_pos, arg, ret>>

\* the source path is found, the source is read and state = State.NORMAL
OpenFile ==
    /\ pc = "files" /\ nfiles < MaxFiles
    /\ \E f \in LogFiles, path \in SourcePaths, s \in Sources :
        /\ f.exit_code = 1 /\ ~ToolContains(f.tool, "preprocessor")
        /\ \/ f.matches > 1 /\ f.qualified
           \/ f.matches = 1 /\ ~ToolContains(f.tool, "project")
        /\ nfiles' = nfiles + 1
        /\ source_path' = path
        /\ src' = s
        /\ state' = StartOfFileState
        /\ pc' = "lines"
        /\ UNCHANGED <<project_name, project_errors, nlines, all, error_types,
                       classifier_error_pos, arg, ret>>

\* several candidates and no qualified path in the log: source_path stays
\* None and building the path to open raises TypeError
AmbiguousPath ==
    /\ pc = "files" /\ nfiles < MaxFiles
    /\ \E f \in LogFiles :
        /\ f.exit_code = 1 /\ ~ToolContains(f.tool, "preprocessor")
        /\ f.matches > 1 /\ ~f.qualified
        /\ nfiles' = nfiles + 1
        /\ source_path' = NoPath
        /\ pc' = "raised"
        /\ UNCHANGED <<project_name, src, state, project_errors, nlines, all,
                       error_types, classifier_error_pos, arg, ret>>

\* no candidate: IndexError, print, input() and break, then the stats
MissingSource ==
    /\ pc = "files" /\ nfiles < MaxFiles
    /\ \E f \in LogFiles :
        /\ f.exit_code = 1 /\ ~ToolContains(f.tool, "preprocessor")
        /\ f.matches = 0 /\ ~ToolContains(f.tool, "project")
        /\ nfiles' = nfiles + 1
        /\ source_path' = NoPath
        /\ Stats
        /\ UNCHANGED <<project_name, src, state, project_errors, nlines,
                       classifier_error_pos, arg, ret>>

\* The runs of rg and slang a line can meet: each tool is run only while
\* the category is 'undefined', and a tool that is not run returns nothing
\* the line reads.
RgRunsFor(r) ==
    IF r.ok /\ r.err[1].category = "undefined" THEN RgRuns ELSE {<<"">>}
SlangRunsFor(r, rg) ==
    IF r.ok /\ r.err[1].category = "undefined" /\ rg[1] = ""
    THEN SlangRuns ELSE {<<EmptyLine>>}

\* one line of the log: classified and appended
ProcessLine ==
    /\ pc = "lines" /\ nlines < MaxLines
    /\ \E l \in FileLines :
        LET c == error_classifier(src, l, state, project_name, source_path) IN
        \E rg \in RgRunsFor(c) : \E so \in SlangRunsFor(c, rg) :
          LET r == ClassifyLine(src, l, state, project_name, source_path, rg, so) IN
          /\ r.ok
          /\ nlines' = nlines + 1
          /\ state' = r.state
          /\ project_errors' = AppendRecord(project_errors, r.err[1])
          /\ classifier_error_pos' = Some(l.loc)
          /\ UNCHANGED <<pc, project_name, nfiles, source_path, src, all,
                         error_types, arg, ret>>

\* a line on which error_classifier or validate_slang raises passed over:
\* nothing is appended and the loop goes on with the next line
LineRaises_Skips ==
    /\ pc = "lines" /\ nlines < MaxLines
    /\ \E l \in FileLines :
        LET c == error_classifier(src, l, state, project_name, source_path) IN
        \E rg \in RgRunsFor(c) : \E so \in SlangRunsFor(c, rg) :
          LET r == ClassifyLine(src, l, state, project_name, source_path, rg, so) IN
          /\ ~r.ok
          /\ nlines' = nlines + 1
          /\ state' = r.state
          /\ classifier_error_pos' = (IF l.loc = <<>> THEN None
                                      ELSE Some(l.loc))
          /\ UNCHANGED <<pc, project_name, nfiles, source_path, src,
                         project_errors, all, error_types, arg, ret>>

\* one line of the log on which error_classifier or validate_slang raises
LineRaises ==
    /\ pc = "lines" /\ nlines < MaxLines
    /\ \E l \in FileLines :
        LET c == error_classifier(src, l, state, project_name, source_path) IN
        \E rg \in RgRunsFor(c) : \E so \in SlangRunsFor(c, rg) :
          LET r == ClassifyLine(src, l, state, project_name, source_path, rg, so) IN
          /\ ~r.ok
          /\ nlines' = nlines + 1
          /\ state' = r.state
          /\ pc' = "raised"
          /\ classifier_error_pos' = (IF l.loc = <<>> THEN None
                                      ELSE Some(l.loc))
          /\ UNCHANGED <<project_name, nfiles, source_path, src,
                         project_errors, all, error_types, arg, ret>>

\* the log file has no more lines
EndOfFile ==
    /\ pc = "lines"
    /\ pc' = "files"
    /\ UNCHANGED <<project_name, nfiles, source_path, src, state,
                   project_errors, nlines, all, error_types,
                   classifier_error_pos, arg, ret>>

\* the project has no more log files
PerProjectStats ==
    /\ pc = "files"
    /\ Stats
    /\ UNCHANGED <<project_name, nfiles, source_path, src, state,
                   project_errors, nlines, classifier_error_pos, arg, ret>>

Next ==
    \/ SkipFile
    \/ OpenFile
    \/ AmbiguousPath
    \/ MissingSource
    \/ ProcessLine
    \/ LineRaises
    \/ EndOfFile
    \/ PerProjectStats

Spec == Init /\ [][Next]_vars

\* ------------------------------------------- a tool call that never ends
\* subprocess.run of get_slang_output / get_rg_output is called without a
\* timeout: when the process started for a line never exits, the call
\* never returns and the script stays in it.  The tools are run for the
\* lines error_classifier leaves 'undefined'.
ToolHangs ==
    /\ pc = "lines" /\ nlines < MaxLines
    /\ \E l \in FileLines :
        LET c == error_classifier(src, l, state, project_name, source_path) IN
        /\ c.ok
        /\ c.err[1].category = "undefined"
        /\ nlines' = nlines + 1
        /\ state' = c.state
        /\ classifier_error_pos' = Some(l.loc)
        /\ pc' = "hung"
        /\ UNCHANGED <<project_name, nfiles, source_path, src,
                       project_errors, all, error_types, arg, ret>>

NextHang ==
    \/ Next
    \/ ToolHangs

\* The run with tools that may hang.  A log file has finitely many lines:
\* the end of the file is not put off for ever.
SpecHang == Init /\ [][NextHang]_vars /\ WF_vars(EndOfFile)

\* ------------------------------------------------- single calls
\* The names of the run while a single call is tried: none of them moves.
NoRun ==
    /\ project_name = "ibex"
    /\ nfiles = 0
    /\ source_path = NoPath
    /\ src = <<>>
    /\ state = Unbound
    /\ project_errors = <<>>
    /\ nlines = 0
    /\ all = 0
    /\ error_types = [c \in Categories |-> 0]
    /\ classifier_error_pos = None

\* the slang runs a single call of validate_slang is tried on: up to
\* MaxSlangLines lines of stderr
MaxSlangLines == 3
SlangAlphabet == {EmptyLine, DiagAt1, DiagAt2, UnknownAt1, NoteLine}
SlangOutputs ==
    UNION {[1..n -> SlangAlphabet] : n \in 1..MaxSlangLines}

\* One pass of the body of `for line in f` on the arguments drawn: the
\* source, the line, the state the line before left, the project, the
\* source path, and what rg and slang return if they are run.
InitLine ==
    /\ pc = "call"
    /\ NoRun
    /\ arg \in {Some(a) : a \in
                 [fn : {"line"}, src : Sources, line : LogLines, state : State,
                  project : ProjectNames, path : SourcePaths,
                  rg : RgRuns, slang : SlangRuns]}
    /\ ret = None

CallLine ==
    /\ pc = "call"
    /\ arg[1].fn = "line"
    /\ LET a == arg[1] IN
       ret' = Some(ClassifyLine(a.src, a.line, a.state, a.project, a.path,
                                a.rg, a.slang))
    /\ pc' = "returned"
    /\ UNCHANGED <<project_name, nfiles, source_path, src, state,
                   project_errors, nlines, all, error_types,
                   classifier_error_pos, arg>>

SpecLine == InitLine /\ [][CallLine]_vars

\* One call of validate_slang on the arguments drawn: a record the rules
\* and the scan left 'undefined', the state the rules returned, and what
\* slang writes.
UndefinedRecords ==
    {ErrorContainer("ibex", "rtl/top.sv", LineNumberOf(l), StartCharOf(l),
                    EndCharOf(l), l) :
        l \in {x \in LogLines : x.loc # <<>> /\ x.token = None /\ ~x.expanding
                                 /\ ~x.failpath /\ ~x.sentinel}}

InitSlang ==
    /\ pc = "call"
    /\ NoRun
    /\ arg \in {Some(a) : a \in
                 [fn : {"validate_slang"}, state : State \ {SLANG_VERIFIED},
                  err : UndefinedRecords, slang : SlangOutputs]}
    /\ ret = None

CallSlang ==
    /\ pc = "call"
    /\ arg[1].fn = "validate_slang"
    /\ LET a == arg[1]
           v == validate_slang(a.state, a.err, a.slang)
       IN  ret' = Some([ok |-> v.ok, err |-> v.err, state |-> v.state,
                        errors |-> join_until_regex(a.slang)])
    /\ pc' = "returned"
    /\ UNCHANGED <<project_name, nfiles, source_path, src, state,
                   project_errors, nlines, all, error_types,
                   classifier_error_pos, arg>>

SpecSlang == InitSlang /\ [][CallSlang]_vars

\* One call of validate_slang on a record at line 2, column 20 and a slang
\* output whose first message names a line next to or on the record's and
\* a column up to MaxColumnOffset on either side of the record's, followed
\* by a message about a far line.
MaxColumnOffset == 11
MatchLine ==
    [loc |-> <<2, 20>>, token |-> None, expanding |-> FALSE,
     failpath |-> FALSE, sentinel |-> FALSE]
MatchRecord == ErrorContainer("ibex", "rtl/top.sv", 2, 20, 20, MatchLine)
FarDiag == SlangLine(TRUE, <<9, 1>>, FALSE)
MatchOutputs ==
    {<<SlangLine(TRUE, <<l, c>>, unk), FarDiag, EmptyLine>> :
        l \in 1..3, c \in (20 - MaxColumnOffset)..(20 + MaxColumnOffset),
        unk \in BOOLEAN}

InitMatch ==
    /\ pc = "call"
    /\ NoRun
    /\ arg \in {Some(a) : a \in
                 [fn : {"validate_slang"}, state : {NORMAL, MODULE_DEFINE},
                  err : {MatchRecord}, slang : MatchOutputs]}
    /\ ret = None

SpecMatch == InitMatch /\ [][CallSlang]_vars

\* One call of error_classifier on a source long enough for the two
\* source searches to run against their far ends: a source of MaxSrcLines
\* lines of plain code, with at most one line that holds the word module or
\* a macro call, and a syntax error on any of its lines.
MaxSrcLines == 32
CodeLines == [i \in 1..MaxSrcLines |-> "code"]
WindowSources ==
    {CodeLines}
    \cup {[CodeLines EXCEPT ![k] = kind] :
             k \in 1..MaxSrcLines, kind \in {"module", "macro"}}
WindowLines ==
    {[loc |-> <<n, 5>>, token |-> Some(tok), expanding |-> FALSE,
      failpath |-> FALSE, sentinel |-> FALSE] :
        n \in 1..MaxSrcLines, tok \in {Tok(TRUE, "FOO"), Tok(FALSE, "x")}}

InitWindow ==
    /\ pc = "call"
    /\ NoRun
    /\ arg \in {Some(a) : a \in
                 [fn : {"error_classifier"}, src : WindowSources,
                  line : WindowLines]}
    /\ ret = None

CallWindow ==
    /\ pc = "call"
    /\ arg[1].fn = "error_classifier"
    /\ LET a == arg[1] IN
       ret' = Some(error_classifier(a.src, a.line, NORMAL, "ibex",
                                    "rtl/top.sv"))
    /\ pc' = "returned"
    /\ UNCHANGED <<project_name, nfiles, source_path, src, state,
                   project_errors, nlines, all, error_types,
                   classifier_error_pos, arg>>

SpecWindow == InitWindow /\ [][CallWindow]_vars

\* ------------------------- verilog/tools/kythe/filelist_parser.py
\* Text of a file list, as ParseFileList can see it: a line, once comments
\* are removed and the line is stripped, is a sequence of pieces; a piece
\* is a text with the case of its letters ("caseless": it has no letter).
\* The words the parser compares with (directives, prefixes) are pieces of
\* their own, so that startswith is a test of the first piece and
\* l[len(prefix):] is the tail.
LetterCases == {"lower", "upper", "mixed", "caseless"}
Piece(text, case) == [text |-> text, case |-> case]
Lexeme(text) == Piece(text, "lower")

\* str.upper and str.lower of a piece, and of a line
upper_piece(p) ==
    IF p.case = "caseless" THEN p ELSE [p EXCEPT !.case = "upper"]
lower_piece(p) ==
    IF p.case = "caseless" THEN p ELSE [p EXCEPT !.case = "lower"]
upper(l) == [k \in DOMAIN l |-> upper_piece(l[k])]
lower(l) == [k \in DOMAIN l |-> lower_piece(l[k])]

\* class FilenameOperation(Enum)
FilenameOperation == {"NONE", "TO_LOWERCASE", "TO_UPPERCASE"}

\* prefixes_and_destinations of ParseFileList, in the order of the list
prefixes_and_destinations ==
    << <<"+incdir+", "include_dirs">>,
       <<"+libdir+", "lib_dirs">>,
       <<"+libdir-nocase+", "lib_dirs">>,
       <<"-y ", "lib_dirs">>,
       <<"+libext+", "libext_suffixes">>,
       <<"+define+", "defines">>,
       <<"+timescale+", "timescales">>,
       <<"+parameter+", "parameters">>,
       <<"+vhdl-work+", "vhdl_work">> >>

\* the first character of a piece: "+", "-" or another one
PlusTexts ==
    {"+toupper-filename", "+tolower-filename", "+incdir+", "+libdir+",
     "+libdir-nocase+", "+libext+", "+define+", "+timescale+",
     "+parameter+", "+vhdl-work+", "+unsupported"}
MinusTexts == {"-y ", "-v ", "-l ", "-unsupported"}
FirstChar(p) ==
    IF p.text \in PlusTexts THEN "+"
    ELSE IF p.text \in MinusTexts THEN "-"
    ELSE "other"

\* l.startswith(prefix)
startswith(l, prefix) == l # <<>> /\ l[1] = Lexeme(prefix)

\* FileList(files=[], include_dirs=[], ...) of the first lines of
\* ParseFileList
EmptyFileList ==
    [files |-> <<>>, include_dirs |-> <<>>, lib_dirs |-> <<>>,
     libext_suffixes |-> <<>>, defines |-> <<>>, parameters |-> <<>>,
     vhdl_work |-> <<>>, timescales |-> <<>>]

\* The index of the first entry of prefixes_and_destinations, from k on,
\* whose prefix the line starts with; 0 if there is none (the else branch
\* of the for loop).
RECURSIVE FirstPrefix(_, _)
FirstPrefix(l, k) ==
    IF k > Len(prefixes_and_destinations) THEN 0
    ELSE IF startswith(l, prefixes_and_destinations[k][1]) THEN k
    ELSE FirstPrefix(l, k + 1)

\* MatchAndAppend(line, prefix, output) when the line starts with the
\* prefix: output.append(line[len(prefix):])
MatchAndAppend(result, l, k) ==
    LET destination == prefixes_and_destinations[k][2] IN
    [result EXCEPT ![destination] = Append(@, Tail(l))]

\* for file_lib_prefix in ["-v ", "-l "]: the prefixes dropped, in turn
DropFileLibPrefix(l) ==
    LET l1 == IF startswith(l, "-v ") THEN Tail(l) ELSE l IN
    IF startswith(l1, "-l ") THEN Tail(l1) ELSE l1

\* ApplyFileOp without the mode: the file is appended as written.
ApplyFileOp_AsWritten(file_op, l) == l

\* if file_op == TO_LOWERCASE: l = l.lower() / elif TO_UPPERCASE: l.upper()
ApplyFileOp(file_op, l) ==
    IF file_op = "TO_LOWERCASE" THEN lower(l)
    ELSE IF file_op = "TO_UPPERCASE" THEN upper(l)
    ELSE l

\* The body of `for l in content.split("\n")` on the stripped line l, from
\* the locals [file_op, result] to the locals it leaves.
ParseFileListLine(locals, l) ==
    IF l = <<>> THEN locals
    ELSE IF l = <<Lexeme("+toupper-filename")>>
      THEN [locals EXCEPT !.file_op = "TO_UPPERCASE"]
    ELSE IF l = <<Lexeme("+tolower-filename")>>
      THEN [locals EXCEPT !.file_op = "TO_LOWERCASE"]
    ELSE IF FirstPrefix(l, 1) # 0
      THEN [locals EXCEPT
              !.result = MatchAndAppend(@, l, FirstPrefix(l, 1))]
    ELSE LET l2 == DropFileLibPrefix(l) IN
         IF l2 # <<>> /\ FirstChar(l2[1]) \in {"+", "-"} THEN locals
         ELSE [locals EXCEPT
                 !.result.files = Append(@, ApplyFileOp(locals.file_op, l2))]

\* the file lists ParseFileList is tried on: up to MaxFileListLines
\* stripped lines
MaxFileListLines == 3
FileListAlphabet ==
    { <<>>,
      <<Lexeme("+toupper-filename")>>,
      <<Lexeme("+tolower-filename")>>,
      <<Piece("normal.sv", "mixed")>>,
      <<Piece("1.2", "caseless")>>,
      <<Lexeme("-v "), Piece("lib.v", "mixed")>>,
      <<Lexeme("-l "), Piece("lib.l", "mixed")>>,
      <<Lexeme("+unsupported")>>,
      <<Lexeme("-unsupported")>>,
      <<Lexeme("+toupper-filename"), Piece("extra", "mixed")>> }
    \cup {<<Lexeme(prefixes_and_destinations[k][1]), Piece("Arg", "mixed")>> :
             k \in 1..Len(prefixes_and_destinations)}
FileLists ==
    UNION {[1..n -> FileListAlphabet] : n \in 1..MaxFileListLines}

\* ParseFileList(content), line by line: arg is the content, ret holds the
\* locals of the loop (i: the line the loop takes next).
InitFileList ==
    /\ pc = "loop"
    /\ NoRun
    /\ arg \in {Some([fn |-> "ParseFileList", content |-> c]) :
                   c \in FileLists}
    /\ ret = Some([i |-> 1, file_op |-> "NONE", result |-> EmptyFileList])

FileListLine ==
    /\ pc = "loop"
    /\ arg[1].fn = "ParseFileList"
    /\ ret[1].i <= Len(arg[1].content)
    /\ LET locals == ret[1]
           after == ParseFileListLine(locals, arg[1].content[locals.i]) IN
       ret' = Some([after EXCEPT !.i = locals.i + 1])
    /\ UNCHANGED <<pc, project_name, nfiles, source_path, src, state,
                   project_errors, nlines, all, error_types,
                   classifier_error_pos, arg>>

FileListReturn ==
    /\ pc = "loop"
    /\ arg[1].fn = "ParseFileList"
    /\ ret[1].i > Len(arg[1].content)
    /\ pc' = "returned"
    /\ UNCHANGED <<project_name, nfiles, source_path, src, state,
                   project_errors, nlines, all, error_types,
                   classifier_error_pos, arg, ret>>

SpecFileList == InitFileList /\ [][FileListLine \/ FileListReturn]_vars

\* ------- verilog/tools/syntax/export_json_examples/verible_verilog_syntax.py
\* SyntaxData.source_code is a sequence of bytes: "m" is the byte of an
\* ASCII letter, "C3" and "A9" are the two bytes of the UTF-8 encoding of
\* one character outside ASCII. A str is a sequence of characters.
SourceBytes == {"m", "C3", "A9"}

\* bytes.decode("utf-8"): None if the bytes are not UTF-8 (the call
\* raises UnicodeDecodeError), else Some(the characters)
RECURSIVE decode(_)
decode(bs) ==
    IF bs = <<>> THEN Some(<<>>)
    ELSE IF bs[1] = "m"
      THEN LET rest == decode(Tail(bs)) IN
           IF rest = None THEN None ELSE Some(<<"m">> \o rest[1])
    ELSE IF bs[1] = "C3" /\ Len(bs) >= 2 /\ bs[2] = "A9"
      THEN LET rest == decode(Tail(Tail(bs))) IN
           IF rest = None THEN None ELSE Some(<<"e-acute">> \o rest[1])
    ELSE None

\* source_code[start:end] for start, end >= 0: the bytes at the 0-based
\* offsets start .. end-1, cut at the end of the source
Slice(source_code, start, end) ==
    LET last == IF end <= Len(source_code) THEN end ELSE Len(source_code) IN
    SubSeq(source_code, start + 1, last)

\* TokenNode(tag, start, end), LeafNode() and BranchNode(tag, children)
TokenNode(start, end) ==
    [kind |-> "TokenNode", start |-> start, end |-> end, children |-> <<>>]
LeafNode == [kind |-> "LeafNode", start |-> 0, end |-> 0, children |-> <<>>]
BranchNode(children) ==
    [kind |-> "BranchNode", start |-> 0, end |-> 0, children |-> children]

\* find(lambda n: isinstance(n, TokenNode), iter=PostOrderIter) without
\* max_count: the TokenNodes below a node, children before their parent
\* and in the order of children.
RECURSIVE TokensOf(_)
RECURSIVE TokensOfAll(_)
TokensOf(n) ==
    IF n.kind = "TokenNode" THEN <<n>>
    ELSE IF n.kind = "BranchNode" THEN TokensOfAll(n.children)
    ELSE <<>>
TokensOfAll(children) ==
    IF children = <<>> THEN <<>>
    ELSE TokensOf(children[1]) \o TokensOfAll(Tail(children))

\* the start property: TokenNode._start, 0 for a LeafNode, and for a
\* BranchNode the start of the first TokenNode in post order, None if it
\* has none
NodeStart(n) ==
    IF n.kind = "TokenNode" THEN Some(n.start)
    ELSE IF n.kind = "LeafNode" THEN Some(0)
    ELSE LET tokens == TokensOf(n) IN
         IF tokens = <<>> THEN None ELSE Some(tokens[1].start)

\* the end property: TokenNode._end, 0 for a LeafNode, and for a BranchNode
\* the end of the first TokenNode of ReversePostOrderIter, which takes the
\* children in reversed order: the last TokenNode below the node
NodeEnd(n) ==
    IF n.kind = "TokenNode" THEN Some(n.end)
    ELSE IF n.kind = "LeafNode" THEN Some(0)
    ELSE LET tokens == TokensOf(n) IN
         IF tokens = <<>> THEN None ELSE Some(tokens[Len(tokens)].end)

\* Python's truth of an Optional[int]: None and 0 are false
TruthyInt(v) == v # None /\ v[1] # 0
\* ... and of an Optional[bytes]: None and b"" are false
TruthyBytes(v) == v # None /\ v[1] # <<>>

\* Node.text of a node whose syntax_data holds source_code: ok is FALSE if
\* decode raises, else text is the str returned
NodeText(n, source_code) ==
    LET start == NodeStart(n)
        end == NodeEnd(n) IN
    IF /\ TruthyInt(start) /\ TruthyInt(end) /\ TruthyBytes(source_code)
       /\ end[1] <= Len(source_code[1])
    THEN LET text == decode(Slice(source_code[1], start[1], end[1])) IN
         IF text = None THEN [ok |-> FALSE, text |-> <<>>]
         ELSE [ok |-> TRUE, text |-> text[1]]
    ELSE [ok |-> TRUE, text |-> <<>>]

\* the sources and the nodes Node.text is tried on: sources of up to
\* MaxSourceLen bytes, tokens at every pair of offsets up to one past it,
\* branches of up to two children, one of them a branch itself
MaxSourceLen == 4
SourceCodes ==
    {None} \cup {Some(s) : s \in
                   UNION {[1..n -> SourceBytes] : n \in 0..MaxSourceLen}}
Offsets == 0..(MaxSourceLen + 1)
TokenNodes == {TokenNode(s, e) : s \in Offsets, e \in Offsets}
ChildNodes ==
    {TokenNode(0, 1), TokenNode(1, 2), TokenNode(2, MaxSourceLen), LeafNode,
     BranchNode(<<TokenNode(0, 1), TokenNode(1, 2)>>),
     BranchNode(<<LeafNode>>)}
BranchNodes ==
    {BranchNode(c) : c \in UNION {[1..n -> ChildNodes] : n \in 0..2}}
Nodes == TokenNodes \cup {LeafNode} \cup BranchNodes

InitText ==
    /\ pc = "call"
    /\ NoRun
    /\ arg \in {Some(a) : a \in
                 [fn : {"text"}, source_code : SourceCodes, node : Nodes]}
    /\ ret = None

CallText ==
    /\ pc = "call"
    /\ arg[1].fn = "text"
    /\ ret' = Some(NodeText(arg[1].node, arg[1].source_code))
    /\ pc' = "returned"
    /\ UNCHANGED <<project_name, nfiles, source_path, src, state,
                   project_errors, nlines, all, error_types,
                   classifier_error_pos, arg>>

SpecText == InitText /\ [][CallText]_vars

\* ------------------------------- error_classifier: the position of a line
\* The text of a log line as the search for the locator reads it: a
\* sequence of characters, "x" standing for any character that is neither
\* a colon, a dash nor a digit.
LineChars == {":", "-", "1", "2", "x"}
DigitChars == {"1", "2"}
DigitValue(c) == IF c = "1" THEN 1 ELSE 2

\* int(s) of a string of digits
RECURSIVE int(_)
int(s) ==
    IF s = <<>> THEN 0
    ELSE 10 * int(SubSeq(s, 1, Len(s) - 1)) + DigitValue(s[Len(s)])

\* [0-9]+ from index i on: the index after the longest run of digits that
\* starts at i (i itself when there is no digit at i)
RECURSIVE DigitsEnd(_, _)
DigitsEnd(t, i) ==
    IF i <= Len(t) /\ t[i] \in DigitChars THEN DigitsEnd(t, i + 1) ELSE i

\* (-[0-9]+)* from index i on: the index after the last group
RECURSIVE RangesEnd(_, _)
RangesEnd(t, i) ==
    IF i <= Len(t) /\ t[i] = "-" /\ DigitsEnd(t, i + 1) > i + 1
    THEN RangesEnd(t, DigitsEnd(t, i + 1))
    ELSE i

\* r":[0-9]+:[0-9]+(-[0-9]+)*:" tried at index i: the index of the closing
\* colon of the match, 0 when there is no match at i
LocatorAt(t, i) ==
    LET j1 == DigitsEnd(t, i + 1)
        j2 == DigitsEnd(t, j1 + 1)
        k == RangesEnd(t, j2) IN
    IF /\ i <= Len(t) /\ t[i] = ":"
       /\ j1 > i + 1 /\ j1 <= Len(t) /\ t[j1] = ":"
       /\ j2 > j1 + 1
       /\ k <= Len(t) /\ t[k] = ":"
    THEN k ELSE 0

\* error_pos = re.search(r":[0-9]+:[0-9]+(-[0-9]+)*:", line): None, or
\* Some(error_pos[0]), the text of the leftmost match
RECURSIVE SearchLocator(_, _)
SearchLocator(t, i) ==
    IF i > Len(t) THEN None
    ELSE IF LocatorAt(t, i) # 0 THEN Some(SubSeq(t, i, LocatorAt(t, i)))
    ELSE SearchLocator(t, i + 1)

\* s.split(sep): the pieces of s between the separators
RECURSIVE SplitFrom(_, _, _, _)
SplitFrom(s, sep, i, piece) ==
    IF i > Len(s) THEN <<piece>>
    ELSE IF s[i] = sep THEN <<piece>> \o SplitFrom(s, sep, i + 1, <<>>)
    ELSE SplitFrom(s, sep, i + 1, Append(piece, s[i]))
split(s, sep) == SplitFrom(s, sep, 1, <<>>)

\* end_char taken from the first piece of the column field
EndCharField_First(field) == split(field, "-")[1]

\* end_char = start_char.split('-')[-1]
EndCharField(field) == split(field, "-")[Len(split(field, "-"))]

\* start_char = start_char.split('-')[0]
StartCharField(field) == split(field, "-")[1]

\* Lines 170-187 of error_classifier: the record built for a line, before
\* any rule has run; ok is FALSE when error_pos is None and error_pos[0]
\* raises TypeError.
NewErrorContainer(line, project, path) ==
    LET error_pos == SearchLocator(line, 1) IN
    IF error_pos = None THEN [ok |-> FALSE, err |-> None]
    ELSE LET line_number == split(error_pos[1], ":")[2]
             start_char == split(error_pos[1], ":")[3]
         IN  [ok |-> TRUE,
              err |-> Some(ErrorContainer(project, path, int(line_number),
                                          int(StartCharField(start_char)),
                                          int(EndCharField(start_char)),
                                          line))]

\* the texts the position is extracted from: a file name without colon
\* (none, "x" or "1") and after it nothing or every text of up to
\* MaxLineLen characters that starts with a colon
MaxLineLen == 7
LineNames == {<<>>, <<"x">>, <<"1">>}
LineTails ==
    {<<>>} \cup {<<":">> \o t : t \in
                   UNION {[1..n -> LineChars] : n \in 0..(MaxLineLen - 1)}}
LineTexts == {name \o t : name \in LineNames, t \in LineTails}

InitLocator ==
    /\ pc = "call"
    /\ NoRun
    /\ arg \in {Some([fn |-> "error_pos", line |-> t]) : t \in LineTexts}
    /\ ret = None

CallLocator ==
    /\ pc = "call"
    /\ arg[1].fn = "error_pos"
    /\ ret' = Some(NewErrorContainer(arg[1].line, "ibex", "rtl/top.sv"))
    /\ pc' = "returned"
    /\ UNCHANGED <<project_name, nfiles, source_path, src, state,
                   project_errors, nlines, all, error_types,
                   classifier_error_pos, arg>>

SpecLocator == InitLocator /\ [][CallLocator]_vars

\* --------------------------------------- the log files in a given order
\* the state of the file before, kept when the next file is opened
FileStartState_Kept(previous) == previous

\* state = State.NORMAL (line 414), whatever state the file before left
FileStartState(previous) == NORMAL

\* `for line in f` on the lines of one log file from lines[i] on: each
\* line comes with what rg and slang return if they are run for it.  ok is
\* FALSE when a line raises: the script stops there.
RECURSIVE RunLines(_, _, _, _)
RunLines(file, i, st, errors) ==
    IF i > Len(file.lines) THEN [ok |-> TRUE, state |-> st, errors |-> errors]
    ELSE LET l == file.lines[i]
             AfterLine(r) ==
                 IF ~r.ok
                 THEN [ok |-> FALSE, state |-> r.state, errors |-> errors]
                 ELSE RunLines(file, i + 1, r.state,
                               AppendRecord(errors, r.err[1]))
         IN  AfterLine(ClassifyLine(file.src, l.line, st, file.project,
                                    file.path, l.rg, l.slang))

\* `for file in verible_error_files` on log files that all resolve to a
\* source, from files[i] on, with the state and the records the files
\* before left
RECURSIVE RunFiles(_, _, _, _)
RunFiles(files, i, st, errors) ==
    IF i > Len(files) THEN [ok |-> TRUE, state |-> st, errors |-> errors]
    ELSE LET AfterFile(r) ==
                 IF ~r.ok THEN r
                 ELSE RunFiles(files, i + 1, r.state, r.errors)
         IN  AfterFile(RunLines(files[i], 1, FileStartState(st), errors))

\* the lines of the log files, each with the tool outputs it would meet: a
\* macro call, a syntax error slang confirms, one it does not and an
\* endmodule error
LineOf(loc, token) ==
    [loc |-> loc, token |-> token, expanding |-> FALSE, failpath |-> FALSE,
     sentinel |-> FALSE]
OrderLines ==
    {[line |-> LineOf(<<2, 5, 7>>, Some(Tok(TRUE, "FOO"))),
      rg |-> <<"">>, slang |-> <<EmptyLine>>],
     [line |-> LineOf(<<1, 5>>, Some(Tok(FALSE, "x"))),
      rg |-> <<"">>, slang |-> <<DiagAt1, NoteLine, DiagAt2, EmptyLine>>],
     [line |-> LineOf(<<2, 5, 7>>, Some(Tok(FALSE, "x"))),
      rg |-> <<"">>, slang |-> <<EmptyLine>>],
     [line |-> LineOf(<<1, 5>>, Some(Tok(FALSE, "endmodule"))),
      rg |-> <<"">>, slang |-> <<EmptyLine>>]}

\* the log files: up to MaxOrderLines lines on one of two sources
MaxOrderLines == 2
OrderFiles ==
    [project : {"ibex"}, path : {"rtl/top.sv"},
     src : {<<"module", "code">>, <<"code", "macro">>},
     lines : UNION {[1..n -> OrderLines] : n \in 1..MaxOrderLines}]

\* Two log files of a project processed in the one order and in the other.
InitOrder ==
    /\ pc = "call"
    /\ NoRun
    /\ arg \in {Some([fn |-> "files", files |-> <<a, b>>]) :
                   a \in OrderFiles, b \in OrderFiles}
    /\ ret = None

CallOrder ==
    /\ pc = "call"
    /\ arg[1].fn = "files"
    /\ LET a == arg[1].files[1]
           b == arg[1].files[2] IN
       ret' = Some([first |-> RunFiles(<<a, b>>, 1, Unbound, <<>>),
                    second |-> RunFiles(<<b, a>>, 1, Unbound, <<>>)])
    /\ pc' = "returned"
    /\ UNCHANGED <<project_name, nfiles, source_path, src, state,
                   project_errors, nlines, all, error_types,
                   classifier_error_pos, arg>>

SpecOrder == InitOrder /\ [][CallOrder]_vars

\* ------------------------------------------------------------ claims
Count(c) == CountCategory(project_errors, c)
LastRecord == project_errors[Len(project_errors)]

\* C1: among the records of a project, a related-to-slang-validated-error
\* record exists only if a slang-verified-error record exists.
C1_SlangRelatedNeedsVerified ==
    Count("related-to-slang-validated-error") > 0
        => Count("slang-verified-error") > 0

\* a reported project that holds a related-to-slang-validated-error record
C1_Witness ==
    /\ pc = "reported"
    /\ error_types["related-to-slang-validated-error"] > 0

\* C2: among the records of a project, a misc-preprocessor-related record
\* exists only if a misc-preprocessor record exists.
C2_MiscRelatedNeedsMisc ==
    Count("misc-preprocessor-related") > 0 => Count("misc-preprocessor") > 0

\* C3: among the records of a project, a
\* related-to-likely-unhandled-macro-call record exists only if a
\* likely-unhandled-macro-call record exists.
C3_MacroRelatedNeedsMacro ==
    Count("related-to-likely-unhandled-macro-call") > 0
        => Count("likely-unhandled-macro-call") > 0

\* a reported project that holds a related-to-likely-unhandled-macro-call
\* record
C3_Witness ==
    /\ pc = "reported"
    /\ error_types["related-to-likely-unhandled-macro-call"] > 0

\* C4: a project whose records break one of the three cross-category
\* invariants is never reported: the asserts stop the run.
C4_ViolationIsFatal ==
    pc = "reported" =>
        /\ C1_SlangRelatedNeedsVerified
        /\ C2_MiscRelatedNeedsMisc
        /\ C3_MacroRelatedNeedsMacro

\* C5: for a reported project the per-category counts sum to the number of
\* records, which is the number of log lines read for the project.
C5_CountsSumToRecords ==
    pc = "reported" =>
        /\ SumOver(error_types, Categories) = all
        /\ all = Len(project_errors)
        /\ all = nlines

\* a reported project with records of two categories
C5_Witness ==
    /\ pc = "reported"
    /\ all = 2
    /\ error_types["undefined"] = 1
    /\ error_types["standalone-header"] = 1

\* C6: every step that opens a log file leaves the state NORMAL, whatever
\* the state was when the file before ended.
C6_StateResetPerFile ==
    [][pc = "files" /\ pc' = "lines" => state' = NORMAL]_vars

\* a file opened after a file whose last line slang confirmed, which left
\* SLANG_VERIFIED
C6_Witness ==
    /\ pc = "lines"
    /\ state = NORMAL
    /\ project_errors # <<>>
    /\ LastRecord.category = "slang-verified-error"

\* ---- claims about validate_slang and join_until_regex (SpecSlang)
\* The logical messages of a slang output as the documentation of
\* join_until_regex gives them: one per line that names the path, made of
\* that line and the lines after it up to the next line that names the
\* path; the whole output as one message when no line names the path.
RECURSIVE TextOf(_, _, _)
TextOf(strings, from, to) ==
    IF from > to THEN <<>>
    ELSE Text(strings[from]) \o TextOf(strings, from + 1, to)

PathLines(strings) == {i \in 1..Len(strings) : strings[i].path}

MessageEnd(strings, i) ==
    IF \E j \in PathLines(strings) : j > i
    THEN (CHOOSE j \in PathLines(strings) :
              j > i /\ \A k \in PathLines(strings) : k > i => j <= k) - 1
    ELSE Len(strings)

RECURSIVE MessagesFrom(_, _)
MessagesFrom(strings, i) ==
    IF i > Len(strings) THEN <<>>
    ELSE IF strings[i].path
    THEN <<TextOf(strings, i, MessageEnd(strings, i))>>
         \o MessagesFrom(strings, MessageEnd(strings, i) + 1)
    ELSE MessagesFrom(strings, i + 1)

LogicalMessages(strings) ==
    IF PathLines(strings) = {}
    THEN <<TextOf(strings, 1, Len(strings))>>
    ELSE MessagesFrom(strings, 1)

\* a logical message on the record's line, within 10 columns of its
\* col_start, that is no unknown/undeclared complaint
ConfirmingMessage(msg, e) ==
    /\ FirstLocator(msg, 1) # None
    /\ FirstLocator(msg, 1)[1][1] = e.line_number
    /\ Abs(FirstLocator(msg, 1)[1][2] - e.start_char) <= 10
    /\ \A i \in 1..Len(msg) : ~msg[i].unk

Returned(fn) == pc = "returned" /\ arg[1].fn = fn

\* C7: when the slang output holds a confirming logical message for an
\* 'undefined' record, wherever it stands in the output, the record becomes
\* slang-verified-error and the state SLANG_VERIFIED.
C7_ConfirmedWhereverItStands ==
    Returned("validate_slang") =>
        ((\E k \in 1..Len(LogicalMessages(arg[1].slang)) :
              ConfirmingMessage(LogicalMessages(arg[1].slang)[k], arg[1].err))
         => /\ ret[1].ok
            /\ ret[1].err.category = "slang-verified-error"
            /\ ret[1].state = SLANG_VERIFIED)

\* C8: the messages handed to the position matcher are exactly the logical
\* messages of the output, the last one included (an output of empty lines
\* only, which holds no text to hand over, is left aside).
C8_OneMessagePerPathLine ==
    Returned("validate_slang")
    /\ TextOf(arg[1].slang, 1, Len(arg[1].slang)) # <<>>
        => ret[1].errors = LogicalMessages(arg[1].slang)

\* ---- claims about one pass of the loop body (SpecLine)
\* one of the two project-specific rules applies to the line
ProjectRuleApplies(a) ==
    \/ a.project = "ivtest" /\ a.line.failpath
    \/ a.project = "rsd" /\ a.line.sentinel

\* a syntax error on a token without a backtick, in a file that is no .svh
PlainSyntaxError(a) ==
    /\ a.line.loc # <<>>
    /\ a.line.token # None
    /\ ~a.line.token[1].bt
    /\ a.path # "rtl/defs.svh"
    /\ ~ProjectRuleApplies(a)

\* C9: a plain syntax error processed in state SLANG_VERIFIED is
\* related-to-slang-validated-error and leaves the state SLANG_VERIFIED,
\* whatever slang would report for it.
C9_SlangVerifiedCascade ==
    Returned("line") /\ arg[1].state = SLANG_VERIFIED /\ PlainSyntaxError(arg[1])
        => /\ ret[1].ok
           /\ ret[1].err[1].category = "related-to-slang-validated-error"
           /\ ret[1].state = SLANG_VERIFIED

\* such a line returned, with a slang output that confirms its position
C9_Witness ==
    /\ Returned("line") /\ arg[1].state = SLANG_VERIFIED
    /\ PlainSyntaxError(arg[1])
    /\ arg[1].line.loc = <<1, 5>>
    /\ arg[1].rg = <<"">>
    /\ arg[1].slang = <<DiagAt1, NoteLine, DiagAt2, EmptyLine>>
    /\ ret[1].ok
    /\ ret[1].err[1].category = "related-to-slang-validated-error"

\* the categories of the rules that follow the rule of SLANG_VERIFIED and
\* can fire on a line processed in that state
LaterRuleCategories ==
    {"standalone-header", "macro-call-in-module-params", "misc-preprocessor",
     "test-designed-to-fail", "hit-preprocessor-failsafe"}

\* no rule after the first can match: the state is not SLANG_VERIFIED, the
\* line is no syntax error and no project-specific rule applies
NoLaterRuleMatches(a) ==
    /\ a.state # SLANG_VERIFIED
    /\ a.line.token = None
    /\ ~ProjectRuleApplies(a)

\* C10: a line with the unresolved-macro phrase is unresolved-macro when no
\* later rule matches; processed in state SLANG_VERIFIED it is never
\* unresolved-macro: it is related-to-slang-validated-error, or has the
\* category of a later rule that matched.
C10_UnresolvedMacroOverwritten ==
    Returned("line") /\ arg[1].line.expanding /\ arg[1].line.loc # <<>>
        => /\ ret[1].ok
           /\ NoLaterRuleMatches(arg[1])
                => ret[1].err[1].category = "unresolved-macro"
           /\ arg[1].state = SLANG_VERIFIED
                => /\ ret[1].err[1].category # "unresolved-macro"
                   /\ ret[1].err[1].category \in
                        {"related-to-slang-validated-error"}
                            \cup LaterRuleCategories
                   /\ (arg[1].line.token = None /\ ~ProjectRuleApplies(arg[1]))
                        => ret[1].err[1].category
                               = "related-to-slang-validated-error"

\* a line with the unresolved-macro phrase overwritten in state
\* SLANG_VERIFIED
C10_Witness ==
    /\ Returned("line") /\ arg[1].line.expanding
    /\ arg[1].state = SLANG_VERIFIED
    /\ arg[1].line.token = None
    /\ ret[1].ok
    /\ ret[1].err[1].category = "related-to-slang-validated-error"

\* a syntax error on a backtick token that is no directive, in a file that
\* is no .svh
BacktickMacroError(a) ==
    /\ a.line.loc # <<>>
    /\ a.line.token # None
    /\ a.line.token[1].bt
    /\ a.line.token[1].word \notin Directives
    /\ a.path # "rtl/defs.svh"

\* a line of the source among the 30 up to the line the error names holds
\* the word module
ModuleInWindow(a) ==
    \E i \in 1..Len(a.src) :
        /\ i <= a.line.loc[1]
        /\ i > a.line.loc[1] - 30
        /\ a.src[i] \in {"module", "endmodule"}

\* the state and the category of the backtick-token rule for the line
MacroRuleState(a) ==
    IF ModuleInWindow(a) THEN MODULE_DEFINE ELSE MISC_PREPROCESSOR
MacroRuleCategory(a) ==
    IF ModuleInWindow(a) THEN "macro-call-in-module-params"
    ELSE "misc-preprocessor"

\* C11 as stated: from every prior state such a line ends in the state and
\* with the category of the backtick-token rule.
C11_MacroRuleFinalCategory ==
    Returned("line") /\ BacktickMacroError(arg[1])
        => /\ ret[1].ok
           /\ ret[1].state = MacroRuleState(arg[1])
           /\ ret[1].err[1].category = MacroRuleCategory(arg[1])

\* C11: from every prior state a syntax error on a backtick token that is
\* no directive, in a file that is no .svh, leaves the state MODULE_DEFINE
\* when the word module is in the searched window and MISC_PREPROCESSOR
\* otherwise; its category is macro-call-in-module-params, resp.
\* misc-preprocessor, unless a project-specific rule applies to the line,
\* and then it is the category of that rule.
C11_MacroRuleFromEveryState ==
    Returned("line") /\ BacktickMacroError(arg[1])
        => /\ ret[1].ok
           /\ ret[1].state = MacroRuleState(arg[1])
           /\ ret[1].err[1].category =
                IF arg[1].project = "ivtest" /\ arg[1].line.failpath
                THEN "test-designed-to-fail"
                ELSE IF arg[1].project = "rsd" /\ arg[1].line.sentinel
                THEN "hit-preprocessor-failsafe"
                ELSE MacroRuleCategory(arg[1])

\* such a line processed in state MODULE_DEFINE with no module in the
\* window: it leaves MISC_PREPROCESSOR
C11_Witness ==
    /\ Returned("line") /\ BacktickMacroError(arg[1])
    /\ arg[1].state = MODULE_DEFINE
    /\ ~ModuleInWindow(arg[1])
    /\ ret[1].ok
    /\ ret[1].state = MISC_PREPROCESSOR
    /\ ret[1].err[1].category = "misc-preprocessor"

\* a syntax error on a token that is no backtick macro, in a file that is no
\* .svh, to which no project-specific rule applies
GenericSyntaxError(a) ==
    /\ a.line.loc # <<>>
    /\ a.line.token # None
    /\ ~(a.line.token[1].bt /\ a.line.token[1].word \notin Directives)
    /\ a.path # "rtl/defs.svh"
    /\ ~ProjectRuleApplies(a)

\* the token of the line is endmodule
EndmoduleToken(a) ==
    a.line.token = Some([bt |-> FALSE, word |-> "endmodule"])

\* C12: a generic syntax error processed in state MODULE_DEFINE is
\* caused-by-macro-call-in-module-params, and leaves the state MODULE_DEFINE
\* unless its token is endmodule; processed in state MISC_PREPROCESSOR it
\* is misc-preprocessor-related and leaves the state MISC_PREPROCESSOR.
C12_DerivedCategories ==
    Returned("line") /\ GenericSyntaxError(arg[1])
        => /\ arg[1].state = MODULE_DEFINE
                => /\ ret[1].ok
                   /\ ret[1].err[1].category
                        = "caused-by-macro-call-in-module-params"
                   /\ ~EndmoduleToken(arg[1]) => ret[1].state = MODULE_DEFINE
           /\ arg[1].state = MISC_PREPROCESSOR
                => /\ ret[1].ok
                   /\ ret[1].err[1].category = "misc-preprocessor-related"
                   /\ ret[1].state = MISC_PREPROCESSOR

\* a generic syntax error in state MODULE_DEFINE next to a macro call in
\* the source, with a slang output that names its position
C12_Witness ==
    /\ Returned("line") /\ GenericSyntaxError(arg[1])
    /\ arg[1].state = MODULE_DEFINE
    /\ arg[1].line.token = Some([bt |-> FALSE, word |-> "x"])
    /\ arg[1].src = <<"code", "macro">>
    /\ arg[1].line.loc = <<2, 5, 7>>
    /\ arg[1].slang = <<DiagAt1, NoteLine, DiagAt2, EmptyLine>>
    /\ ret[1].ok
    /\ ret[1].state = MODULE_DEFINE
    /\ ret[1].err[1].category = "caused-by-macro-call-in-module-params"

\* a syntax error at token endmodule, on a line that has a locator
EndmoduleLine(a) == a.line.loc # <<>> /\ EndmoduleToken(a)

\* a line processed in state NORMAL is never
\* caused-by-macro-call-in-module-params
NormalNeverCausedBy ==
    Returned("line") /\ arg[1].state = NORMAL /\ ret[1].ok
        => ret[1].err[1].category # "caused-by-macro-call-in-module-params"

\* C13 as stated: in state MODULE_DEFINE an endmodule line of a file that
\* is no .svh leaves the state NORMAL and is
\* caused-by-macro-call-in-module-params; a line processed in the state
\* NORMAL it leaves is not; in any other state the endmodule line leaves
\* the state as it was.
C13_EndmoduleAsStated ==
    /\ NormalNeverCausedBy
    /\ Returned("line") /\ EndmoduleLine(arg[1])
           /\ arg[1].path # "rtl/defs.svh"
        => /\ arg[1].state = MODULE_DEFINE
                => /\ ret[1].ok
                   /\ ret[1].state = NORMAL
                   /\ ret[1].err[1].category
                        = "caused-by-macro-call-in-module-params"
           /\ arg[1].state # MODULE_DEFINE /\ ret[1].ok
                => ret[1].state = arg[1].state

\* C13: in state MODULE_DEFINE an endmodule line leaves the state NORMAL;
\* in a file that is no .svh it is caused-by-macro-call-in-module-params
\* unless a project-specific rule applies to it; a line processed in the
\* state NORMAL it leaves is not caused-by-macro-call-in-module-params.  In
\* the states MISC_PREPROCESSOR, SLANG_VERIFIED and MACRO_CALL_SYNTAX the
\* endmodule line leaves the state as it was; in state NORMAL it leaves
\* NORMAL, or MACRO_CALL_SYNTAX as a likely-unhandled-macro-call, or
\* SLANG_VERIFIED as a slang-verified-error.
C13_EndmoduleClosesRegion ==
    /\ NormalNeverCausedBy
    /\ Returned("line") /\ EndmoduleLine(arg[1])
        => /\ arg[1].state = MODULE_DEFINE
                => /\ ret[1].ok
                   /\ ret[1].state = NORMAL
                   /\ (arg[1].path # "rtl/defs.svh"
                         /\ ~ProjectRuleApplies(arg[1]))
                        => ret[1].err[1].category
                               = "caused-by-macro-call-in-module-params"
           /\ arg[1].state \in {MISC_PREPROCESSOR, SLANG_VERIFIED,
                                MACRO_CALL_SYNTAX}
                => ret[1].ok /\ ret[1].state = arg[1].state
           /\ arg[1].state = NORMAL /\ ret[1].ok
                => \/ ret[1].state = NORMAL
                   \/ /\ ret[1].state = MACRO_CALL_SYNTAX
                      /\ ret[1].err[1].category = "likely-unhandled-macro-call"
                   \/ /\ ret[1].state = SLANG_VERIFIED
                      /\ ret[1].err[1].category = "slang-verified-error"

\* an endmodule line processed in state MODULE_DEFINE, next to a macro
\* call in the source: caused-by-macro-call-in-module-params, state NORMAL
C13_Witness ==
    /\ Returned("line") /\ EndmoduleLine(arg[1])
    /\ arg[1].state = MODULE_DEFINE
    /\ arg[1].path = "rtl/top.sv"
    /\ arg[1].src = <<"code", "macro">>
    /\ ~ProjectRuleApplies(arg[1])
    /\ ret[1].ok
    /\ ret[1].state = NORMAL
    /\ ret[1].err[1].category = "caused-by-macro-call-in-module-params"

\* a syntax error on a token that is no directive keyword, in a .svh file,
\* to which no project-specific rule applies
HeaderSyntaxError(a) ==
    /\ a.line.loc # <<>>
    /\ a.line.token # None
    /\ a.line.token[1].word \notin Directives
    /\ a.path = "rtl/defs.svh"
    /\ ~ProjectRuleApplies(a)

\* C14: a syntax error on a token that is no directive keyword, in a .svh
\* file, processed in state NORMAL with no project-specific rule, is
\* standalone-header and leaves the state NORMAL; neither rg nor slang is
\* run for the record, so it holds the output of neither.
C14_HeaderRuleBeforeScan ==
    Returned("line") /\ HeaderSyntaxError(arg[1]) /\ arg[1].state = NORMAL
        => /\ ret[1].ok
           /\ ret[1].err[1].category = "standalone-header"
           /\ ret[1].state = NORMAL
           /\ ret[1].err[1].rg_output = None
           /\ ret[1].err[1].slang_output = None

\* such a line where rg, had it been run, would have named an including
\* file and slang, had it been run, would have named the position
C14_Witness ==
    /\ Returned("line") /\ HeaderSyntaxError(arg[1]) /\ arg[1].state = NORMAL
    /\ arg[1].line.token = Some([bt |-> FALSE, word |-> "x"])
    /\ arg[1].line.loc = <<1, 5>>
    /\ arg[1].rg = <<"hit", "">>
    /\ arg[1].slang = <<DiagAt1, EmptyLine>>
    /\ ret[1].ok
    /\ ret[1].err[1].category = "standalone-header"
    /\ ret[1].err[1].rg_output = None

\* a line of project ivtest whose path matches the fail/error pattern
IvtestFailLine(a) ==
    /\ a.line.loc # <<>>
    /\ a.project = "ivtest"
    /\ a.line.failpath

\* C15: in project ivtest a line whose path matches the fail/error pattern
\* is test-designed-to-fail from every state and whatever the rules before
\* matched; the last rule does not move the state to MACRO_CALL_SYNTAX for
\* it, and neither rg nor slang is run for it.
C15_IvtestOverrides ==
    Returned("line") /\ IvtestFailLine(arg[1])
        => /\ ret[1].ok
           /\ ret[1].err[1].category = "test-designed-to-fail"
           /\ ret[1].state = MACRO_CALL_SYNTAX
                => arg[1].state = MACRO_CALL_SYNTAX
           /\ ret[1].err[1].rg_output = None
           /\ ret[1].err[1].slang_output = None

\* such a line that also holds the unresolved-macro phrase and a backtick
\* token, processed in state SLANG_VERIFIED, with tools that would answer
C15_Witness ==
    /\ Returned("line") /\ IvtestFailLine(arg[1])
    /\ arg[1].state = SLANG_VERIFIED
    /\ arg[1].line.expanding
    /\ arg[1].line.token = Some([bt |-> TRUE, word |-> "FOO"])
    /\ arg[1].path = "rtl/top.sv"
    /\ arg[1].rg = <<"hit", "">>
    /\ arg[1].slang = <<DiagAt1, EmptyLine>>
    /\ ret[1].ok
    /\ ret[1].err[1].category = "test-designed-to-fail"

\* the category error_classifier alone returns for the line
RuleEngineCategory(a) ==
    error_classifier(a.src, a.line, a.state, a.project, a.path).err[1].category

\* C16: rg is run for a record exactly when error_classifier returned it
\* 'undefined'; slang is run exactly when it was 'undefined' and rg found
\* no including file, so never without rg having been run before; a record
\* the rules categorized keeps that category, and one the scan categorized
\* is standalone-header and is not handed to slang.
C16_StepOrder ==
    Returned("line") /\ arg[1].line.loc # <<>>
        => LET rc == RuleEngineCategory(arg[1])
               e == ret[1].err[1]
           IN  /\ e.rg_output # None <=> rc = "undefined"
               /\ e.rg_output # None => e.rg_output = Some(arg[1].rg)
               /\ e.slang_output # None
                    <=> (rc = "undefined" /\ arg[1].rg[1] = "")
               /\ e.slang_output # None
                    => e.rg_output # None /\ e.rg_output[1][1] = ""
               /\ rc # "undefined"
                    => ret[1].ok /\ e.category = rc
               /\ (rc = "undefined" /\ arg[1].rg[1] # "")
                    => ret[1].ok /\ e.category = "standalone-header"

\* a record the rules left 'undefined' that the scan categorized, with a
\* slang output that would have confirmed it
C16_Witness ==
    /\ Returned("line") /\ arg[1].line.loc = <<1, 5>>
    /\ RuleEngineCategory(arg[1]) = "undefined"
    /\ arg[1].rg = <<"hit", "">>
    /\ arg[1].slang = <<DiagAt1, NoteLine, DiagAt2, EmptyLine>>
    /\ ret[1].ok
    /\ ret[1].err[1].category = "standalone-header"
    /\ ret[1].err[1].rg_output # None
    /\ ret[1].err[1].slang_output = None

\* ---- claims about the lines of a run (Spec)
\* the step takes one line of the log
LineStep == pc = "lines" /\ nlines' = nlines + 1

\* C18: a step that takes a line in which no locator is found appends no
\* record and ends the run with the exception raised; no step follows.
C18_NoLocatorStopsRun ==
    [][/\ (LineStep /\ classifier_error_pos' = None)
            => /\ pc' = "raised"
               /\ project_errors' = project_errors
       /\ pc # "raised"]_vars

\* a run stopped on its second line, which has no locator, after its first
\* line was appended
C18_Witness ==
    /\ pc = "raised"
    /\ classifier_error_pos = None
    /\ nlines = 2
    /\ Len(project_errors) = 1

\* ---- slang output that is no list of diagnostics (SpecSlang)
\* the output holds text before its first line that names the path
TextBeforeFirstPathLine(strings) ==
    \E i \in 1..Len(strings) :
        /\ ~strings[i].empty
        /\ ~strings[i].path
        /\ \A j \in 1..(i - 1) : ~strings[j].path

\* C19: when the slang output holds text before the first line that names
\* the path, validate_slang returns, the record stays 'undefined' and the
\* state is the one it was called with.
C19_UnreadableOutputTolerated ==
    Returned("validate_slang") /\ TextBeforeFirstPathLine(arg[1].slang)
        => /\ ret[1].ok
           /\ ret[1].err.category = "undefined"
           /\ ret[1].state = arg[1].state

\* ---- the records kept (Spec)
\* C20: every step leaves each record already in project_errors where it
\* is and as it is: its category and its position do not change.
C20_RecordsNeverChange ==
    [][\A i \in 1..Len(project_errors) :
          /\ i <= Len(project_errors')
          /\ project_errors'[i] = project_errors[i]]_vars

\* a second record of another category appended after the first, in a
\* second file
C20_Witness ==
    /\ nfiles = 2
    /\ Len(project_errors) = 2
    /\ project_errors[1].category = "undefined"
    /\ project_errors[2].category = "slang-verified-error"

\* C21: every record kept has one category, one of the 13 tags; a step
\* that takes a line and does not raise puts its record at the end of
\* project_errors, after the records of the lines before it, so that the
\* k-th record is the one of the k-th line.
C21_ClosedCategoriesInLineOrder ==
    /\ [](\A i \in 1..Len(project_errors) :
             project_errors[i].category \in Categories)
    /\ [][(LineStep /\ pc' # "raised")
            => /\ Len(project_errors') = Len(project_errors) + 1
               /\ SubSeq(project_errors', 1, Len(project_errors))
                    = project_errors
               /\ Len(project_errors') = nlines']_vars

\* two lines of one file kept in their order: the backtick-token line, then
\* the line it caused
C21_Witness ==
    /\ nfiles = 1
    /\ nlines = 2
    /\ Len(project_errors) = 2
    /\ project_errors[1].category = "macro-call-in-module-params"
    /\ project_errors[2].category = "caused-by-macro-call-in-module-params"

\* ---- the source lines the rules search (SpecWindow)
\* the lines of the source that hold the word module, resp. a macro call
ModuleLinesOf(s) == {i \in 1..Len(s) : s[i] \in {"module", "endmodule"}}
MacroLinesOf(s) == {i \in 1..Len(s) : s[i] = "macro"}

\* the error is a syntax error on a backtick token, resp. on a plain token
OnBacktickToken(a) == a.line.token[1].bt
ErrorLine(a) == a.line.loc[1]

\* C24: for a backtick-token error on line n the word module is found,
\* and the line is macro-call-in-module-params, exactly when it stands on
\* one of the lines n-30 .. n-1.
C24_ModuleWindowPrecedingLines ==
    Returned("error_classifier") /\ OnBacktickToken(arg[1])
        => (ret[1].err[1].category = "macro-call-in-module-params"
              <=> \E i \in ModuleLinesOf(arg[1].src) :
                     /\ i >= ErrorLine(arg[1]) - 30
                     /\ i <= ErrorLine(arg[1]) - 1)

\* C25: for a plain-token syntax error on line n that the rules before
\* left 'undefined', the last rule fires, giving likely-unhandled-macro-call
\* and state MACRO_CALL_SYNTAX, exactly when a macro call stands on line
\* n-2 or n-1.
C25_MacroWindowPrecedingLines ==
    Returned("error_classifier") /\ ~OnBacktickToken(arg[1])
        => ((/\ ret[1].err[1].category = "likely-unhandled-macro-call"
             /\ ret[1].state = MACRO_CALL_SYNTAX)
              <=> \E i \in MacroLinesOf(arg[1].src) :
                     /\ i >= ErrorLine(arg[1]) - 2
                     /\ i <= ErrorLine(arg[1]) - 1)

\* ---- the position match of validate_slang (SpecSlang)
\* the line and the column a logical message names, and whether they are
\* the record's line and a column at most d away from its col_start
NamesPosition(msg) == FirstLocator(msg, 1) # None
MessageLine(msg) == FirstLocator(msg, 1)[1][1]
MessageColumn(msg) == FirstLocator(msg, 1)[1][2]
OnRecordLine(msg, e) == NamesPosition(msg) /\ MessageLine(msg) = e.line_number
ColumnDistance(msg, e) == Abs(MessageColumn(msg) - e.start_char)
UnknownComplaint(msg) == \E i \in 1..Len(msg) : msg[i].unk

\* C26: the first message of the output, which the matcher is handed,
\* confirms the record exactly when it names the record's line and a
\* column at most 10 from its col_start on either side, and is no
\* unknown/undeclared complaint: at distance 10 it confirms, at distance 11
\* or on a line next to the record's it does not.
C26_PositionMatchBoundary ==
    Returned("validate_slang")
        => LET m == <<arg[1].slang[1]>>
               e == arg[1].err
           IN  /\ ret[1].ok
               /\ ret[1].err.category = "slang-verified-error"
                    <=> (/\ MessageLine(m) = e.line_number
                         /\ ColumnDistance(m, e) <= 10
                         /\ ~UnknownComplaint(m))
               /\ ret[1].state = IF ret[1].err.category = "slang-verified-error"
                                 THEN SLANG_VERIFIED ELSE arg[1].state

\* a message on the record's line 10 columns to the left of it confirms
C26_Witness ==
    /\ Returned("validate_slang")
    /\ arg[1].slang[1] = SlangLine(TRUE, <<2, 10>>, FALSE)
    /\ arg[1].err.start_char = 20
    /\ ret[1].err.category = "slang-verified-error"
    /\ ret[1].state = SLANG_VERIFIED

\* the message names the record's line and a column within 10 of its
\* col_start
PositionMatches(msg, e) ==
    OnRecordLine(msg, e) /\ ColumnDistance(msg, e) <= 10

\* C27: when validate_slang returns and every logical message that
\* matches the record's position is an unknown/undeclared complaint, the
\* record stays 'undefined' and the state is the one it was called with.
C27_UnknownComplaintsNeverConfirm ==
    Returned("validate_slang") /\ ret[1].ok
        => LET msgs == LogicalMessages(arg[1].slang) IN
           (\A k \in 1..Len(msgs) :
                PositionMatches(msgs[k], arg[1].err)
                    => UnknownComplaint(msgs[k]))
             => /\ ret[1].err.category = "undefined"
                /\ ret[1].state = arg[1].state

\* an unknown complaint at the very position of the record, handed to the
\* matcher, that leaves the record 'undefined'
C27_Witness ==
    /\ Returned("validate_slang") /\ ret[1].ok
    /\ arg[1].err.line_number = 1
    /\ arg[1].slang = <<UnknownAt1, DiagAt2, EmptyLine>>
    /\ ret[1].errors = <<<<UnknownAt1>>>>
    /\ ret[1].err.category = "undefined"
    /\ ret[1].state = arg[1].state

\* C28: when validate_slang returns and no logical message matches the
\* record's position, the record is as it was but for the slang output it
\* now holds, 'undefined', and the state is the one the call was given.
C28_NoMatchChangesNothing ==
    Returned("validate_slang") /\ ret[1].ok
        => LET msgs == LogicalMessages(arg[1].slang) IN
           (\A k \in 1..Len(msgs) : ~PositionMatches(msgs[k], arg[1].err))
             => /\ ret[1].err.category = "undefined"
                /\ ret[1].err
                     = [arg[1].err EXCEPT !.slang_output = Some(arg[1].slang)]
                /\ ret[1].state = arg[1].state

\* diagnostics of another line only, for a record met in state
\* MODULE_DEFINE
C28_Witness ==
    /\ Returned("validate_slang") /\ ret[1].ok
    /\ arg[1].err.line_number = 1
    /\ arg[1].state = MODULE_DEFINE
    /\ arg[1].slang = <<DiagAt2, NoteLine, DiagAt2>>
    /\ ret[1].errors = <<<<DiagAt2, NoteLine>>>>
    /\ ret[1].err.category = "undefined"
    /\ ret[1].state = MODULE_DEFINE

\* ---- the inclusion scan (SpecLine)
\* error_classifier returned the record 'undefined'
LeftUndefinedByRules(a) ==
    a.line.loc # <<>> /\ RuleEngineCategory(a) = "undefined"

\* C29: for a record the rules left 'undefined', a non-empty rg output
\* makes it standalone-header, leaves the state as it was and slang is not
\* run; an empty rg output leaves it to slang, which is run, and the record
\* is 'undefined' or slang-verified-error afterwards.
C29_ScanOutcome ==
    Returned("line") /\ LeftUndefinedByRules(arg[1])
        => LET e == ret[1].err[1] IN
           /\ arg[1].rg[1] # ""
                => /\ ret[1].ok
                   /\ e.category = "standalone-header"
                   /\ ret[1].state = arg[1].state
                   /\ e.slang_output = None
           /\ arg[1].rg[1] = ""
                => /\ e.rg_output = Some(arg[1].rg)
                   /\ e.slang_output = Some(arg[1].slang)
                   /\ e.category \in {"undefined", "slang-verified-error"}

\* an empty scan after which slang confirms the record
C29_Witness ==
    /\ Returned("line") /\ LeftUndefinedByRules(arg[1])
    /\ arg[1].rg = <<"">>
    /\ arg[1].state = NORMAL
    /\ ret[1].ok
    /\ ret[1].err[1].slang_output # None
    /\ ret[1].err[1].category = "slang-verified-error"
    /\ ret[1].state = SLANG_VERIFIED

\* ---- the rule of state MACRO_CALL_SYNTAX (SpecLine)
\* the backtick-token rule takes the line and moves the state: a backtick
\* token that is no directive, in a file that is no .svh
MovedByBacktickRule(a) ==
    /\ a.line.token[1].bt
    /\ a.line.token[1].word \notin Directives
    /\ a.path # "rtl/defs.svh"

\* C30: a syntax error processed in state MACRO_CALL_SYNTAX is
\* related-to-likely-unhandled-macro-call and leaves the state as it is,
\* whatever the rules before gave it (unresolved-macro, standalone-header
\* in a .svh file), unless the backtick-token rule moved the state or a
\* project-specific rule applies; neither rg nor slang is run for it.
C30_MacroCallSyntaxCascade ==
    Returned("line") /\ arg[1].state = MACRO_CALL_SYNTAX
        /\ arg[1].line.loc # <<>> /\ arg[1].line.token # None
        /\ ~MovedByBacktickRule(arg[1]) /\ ~ProjectRuleApplies(arg[1])
        => /\ ret[1].ok
           /\ ret[1].err[1].category = "related-to-likely-unhandled-macro-call"
           /\ ret[1].state = MACRO_CALL_SYNTAX
           /\ ret[1].err[1].rg_output = None
           /\ ret[1].err[1].slang_output = None

\* a syntax error of a .svh file that also holds the unresolved-macro
\* phrase, processed in state MACRO_CALL_SYNTAX
C30_Witness ==
    /\ Returned("line") /\ arg[1].state = MACRO_CALL_SYNTAX
    /\ arg[1].path = "rtl/defs.svh"
    /\ arg[1].line.expanding
    /\ arg[1].line.token = Some([bt |-> FALSE, word |-> "x"])
    /\ ~ProjectRuleApplies(arg[1])
    /\ ret[1].ok
    /\ ret[1].err[1].category = "related-to-likely-unhandled-macro-call"
    /\ ret[1].state = MACRO_CALL_SYNTAX

\* ---- claims about ParseFileList (SpecFileList)
\* the content and the locals of the call of ParseFileList
Content == arg[1].content
\* the mode the directives before line k ask for: the one of the most
\* recent +toupper-filename / +tolower-filename line, none before the first
RECURSIVE ModeBefore(_, _)
ModeBefore(c, k) ==
    IF k <= 1 THEN "NONE"
    ELSE IF c[k - 1] = <<Lexeme("+toupper-filename")>> THEN "TO_UPPERCASE"
    ELSE IF c[k - 1] = <<Lexeme("+tolower-filename")>> THEN "TO_LOWERCASE"
    ELSE ModeBefore(c, k - 1)
\* a regular file entry: a name, or a name after -v or -l; its name
IsLibraryEntry(l) == Len(l) = 2 /\ l[1] \in {Lexeme("-v "), Lexeme("-l ")}
IsFileEntry(l) ==
    \/ Len(l) = 1 /\ FirstChar(l[1]) = "other"
    \/ IsLibraryEntry(l) /\ FirstChar(l[2]) = "other"
FileName(l) == IF IsLibraryEntry(l) THEN Tail(l) ELSE l
InCase(mode, name) ==
    [k \in DOMAIN name |->
       IF name[k].case = "caseless" THEN name[k]
       ELSE IF mode = "TO_UPPERCASE" THEN Piece(name[k].text, "upper")
       ELSE IF mode = "TO_LOWERCASE" THEN Piece(name[k].text, "lower")
       ELSE name[k]]
\* the files the lines 1..n of a content stand for, in input order
RECURSIVE FilesOf(_, _)
FilesOf(c, n) ==
    IF n = 0 THEN <<>>
    ELSE IF IsFileEntry(c[n])
      THEN Append(FilesOf(c, n - 1),
                  InCase(ModeBefore(c, n), FileName(c[n])))
    ELSE FilesOf(c, n - 1)
\* the arguments of the lines 1..n that carry one of the given prefixes,
\* as written, in input order
RECURSIVE ArgsOf(_, _, _)
ArgsOf(c, n, prefixes) ==
    IF n = 0 THEN <<>>
    ELSE IF Len(c[n]) = 2 /\ c[n][1] \in {Lexeme(p) : p \in prefixes}
      THEN Append(ArgsOf(c, n - 1, prefixes), Tail(c[n]))
    ELSE ArgsOf(c, n - 1, prefixes)

\* C22: after any number of lines of a file list, files holds the regular
\* file entries read so far (-v and -l entries without their prefix), in
\* input order, each in the case of the most recent +toupper-filename or
\* +tolower-filename line before it and unchanged if there is none; the
\* +incdir+, +libdir+, -y, +libext+, +define+, +parameter+, +timescale+ and
\* +vhdl-work+ entries are kept as written.
C22_FilenameCaseMode ==
    arg[1].fn = "ParseFileList" =>
      LET n == ret[1].i - 1
          result == ret[1].result IN
      /\ ret[1].file_op = ModeBefore(Content, ret[1].i)
      /\ result.files = FilesOf(Content, n)
      /\ result.include_dirs = ArgsOf(Content, n, {"+incdir+"})
      /\ result.lib_dirs =
           ArgsOf(Content, n, {"+libdir+", "+libdir-nocase+", "-y "})
      /\ result.libext_suffixes = ArgsOf(Content, n, {"+libext+"})
      /\ result.defines = ArgsOf(Content, n, {"+define+"})
      /\ result.parameters = ArgsOf(Content, n, {"+parameter+"})
      /\ result.timescales = ArgsOf(Content, n, {"+timescale+"})
      /\ result.vhdl_work = ArgsOf(Content, n, {"+vhdl-work+"})
\* a file list of a plain file, a directive and a -v entry has been read:
\* the first file is as written, the second converted and without prefix
C22_Witness ==
    /\ pc = "returned"
    /\ arg[1].fn = "ParseFileList"
    /\ Content = << <<Piece("normal.sv", "mixed")>>,
                    <<Lexeme("+toupper-filename")>>,
                    <<Lexeme("-v "), Piece("lib.v", "mixed")>> >>
    /\ ret[1].result.files = << <<Piece("normal.sv", "mixed")>>,
                                <<Piece("lib.v", "upper")>> >>

\* ---- claims about Node.text (SpecText)
\* str.encode("utf-8") of a text of the two characters of the model
RECURSIVE encode(_)
encode(text) ==
    IF text = <<>> THEN <<>>
    ELSE (IF text[1] = "m" THEN <<"m">> ELSE <<"C3", "A9">>)
         \o encode(Tail(text))
\* the node of the call has a start and an end within the source
NodeInSource ==
    /\ arg[1].source_code # None
    /\ NodeStart(arg[1].node) # None
    /\ NodeEnd(arg[1].node) # None
    /\ NodeStart(arg[1].node)[1] <= NodeEnd(arg[1].node)[1]
    /\ NodeEnd(arg[1].node)[1] <= Len(arg[1].source_code[1])
\* the bytes of the source from the start to the end of the node
NodeBytes ==
    SubSeq(arg[1].source_code[1], NodeStart(arg[1].node)[1] + 1,
           NodeEnd(arg[1].node)[1])

\* C23: the text of a node with 0 <= start <= end <= len(source) is the
\* source bytes from start to end (taken where these bytes are UTF-8
\* text), also when the node starts at offset 0; the start and the end of
\* a branch node are those of its first and of its last token.
C23_TextIsSourceSlice ==
    (Returned("text") /\ NodeInSource /\ decode(NodeBytes) # None) =>
       /\ ret[1].ok
       /\ encode(ret[1].text) = NodeBytes
\* the same for the nodes that do not start at offset 0
C23_TextIsSourceSliceAfterStart ==
    (/\ Returned("text") /\ NodeInSource /\ decode(NodeBytes) # None
     /\ NodeStart(arg[1].node)[1] > 0) =>
       /\ ret[1].ok
       /\ encode(ret[1].text) = NodeBytes
\* a token at the offsets 0-1 of a source that starts with a letter has
\* the empty text
C23_TokenAtOffsetZero ==
    /\ Returned("text")
    /\ arg[1].node = TokenNode(0, 1)
    /\ arg[1].source_code = Some(<<"m", "m">>)
    /\ ret[1] = [ok |-> TRUE, text |-> <<>>]

\* ---- claims about the project-specific rules (SpecLine)
\* a line of project rsd that holds the sentinel "Error!"
RsdSentinelLine(a) ==
    /\ a.line.loc # <<>>
    /\ a.project = "rsd"
    /\ a.line.sentinel
\* the project-specific categories
ProjectCategories == {"test-designed-to-fail", "hit-preprocessor-failsafe"}

\* C31: in project rsd a line that holds "Error!" is
\* hit-preprocessor-failsafe from every state and whatever the rules
\* before assigned; the last rule does not move the state to
\* MACRO_CALL_SYNTAX for it and neither rg nor slang is run for it.  In a
\* project that is neither ivtest nor rsd no record is test-designed-to-fail
\* or hit-preprocessor-failsafe.
C31_RsdSentinelOverrides ==
    /\ (Returned("line") /\ RsdSentinelLine(arg[1]))
        => /\ ret[1].ok
           /\ ret[1].err[1].category = "hit-preprocessor-failsafe"
           /\ ret[1].state = MACRO_CALL_SYNTAX
                => arg[1].state = MACRO_CALL_SYNTAX
           /\ ret[1].err[1].rg_output = None
           /\ ret[1].err[1].slang_output = None
    /\ (Returned("line") /\ arg[1].line.loc # <<>>
        /\ arg[1].project \notin {"ivtest", "rsd"})
        => (ret[1].ok => ret[1].err[1].category \notin ProjectCategories)
\* such a line that also holds the unresolved-macro phrase and a syntax
\* error under a macro call, processed in state MODULE_DEFINE, with tools
\* that would answer
C31_Witness ==
    /\ Returned("line") /\ RsdSentinelLine(arg[1])
    /\ arg[1].state = MODULE_DEFINE
    /\ arg[1].line.expanding
    /\ arg[1].line.token = Some(Tok(FALSE, "x"))
    /\ arg[1].line.loc = <<2, 5, 7>>
    /\ arg[1].src = <<"code", "macro">>
    /\ arg[1].path = "rtl/top.sv"
    /\ arg[1].rg = <<"hit", "">>
    /\ arg[1].slang = <<DiagAt1, EmptyLine>>
    /\ ret[1].ok
    /\ ret[1].err[1].category = "hit-preprocessor-failsafe"
    /\ ret[1].state = MODULE_DEFINE

\* ---- claims about the position of a line (SpecLocator)
\* the characters i..j of a text are digits, at least one
IsNumber(t, i, j) == i <= j /\ \A k \in i..j : t[k] \in DigitChars
\* the number written with the digits i..j of a text
RECURSIVE NumberAt(_, _, _)
NumberAt(t, i, j) ==
    IF i > j THEN 0
    ELSE DigitValue(t[i]) * (10 ^ (j - i)) + NumberAt(t, i + 1, j)
\* the index of the first colon of a text from index i on, 0 if none
RECURSIVE ColonFrom(_, _)
ColonFrom(t, i) ==
    IF i > Len(t) THEN 0 ELSE IF t[i] = ":" THEN i ELSE ColonFrom(t, i + 1)
\* the indices of the first three colons of the text of the call
Colon1 == ColonFrom(arg[1].line, 1)
Colon2 == IF Colon1 = 0 THEN 0 ELSE ColonFrom(arg[1].line, Colon1 + 1)
Colon3 == IF Colon2 = 0 THEN 0 ELSE ColonFrom(arg[1].line, Colon2 + 1)
\* the text is name:LINE:COL: with a name without colon
HasPlainLocator ==
    /\ Colon3 # 0
    /\ IsNumber(arg[1].line, Colon1 + 1, Colon2 - 1)
    /\ IsNumber(arg[1].line, Colon2 + 1, Colon3 - 1)
\* the text is name:LINE:COL1-COL2: with the dash at index d
HasRangeLocator(d) ==
    /\ Colon3 # 0
    /\ arg[1].line[d] = "-"
    /\ IsNumber(arg[1].line, Colon1 + 1, Colon2 - 1)
    /\ IsNumber(arg[1].line, Colon2 + 1, d - 1)
    /\ IsNumber(arg[1].line, d + 1, Colon3 - 1)

\* C32: for a line name:LINE:COL: the record has line LINE and start and
\* end column COL; for a line name:LINE:COL1-COL2: it has line LINE, start
\* column COL1 and end column COL2; the text of the line is kept unchanged
\* in the record and the category of the new record is 'undefined'.
C32_PositionExtraction ==
    Returned("error_pos") =>
      LET t == arg[1].line IN
      /\ HasPlainLocator =>
             /\ ret[1].ok
             /\ ret[1].err[1].line_number = NumberAt(t, Colon1 + 1, Colon2 - 1)
             /\ ret[1].err[1].start_char = NumberAt(t, Colon2 + 1, Colon3 - 1)
             /\ ret[1].err[1].end_char = NumberAt(t, Colon2 + 1, Colon3 - 1)
      /\ \A d \in 1..Len(t) :
           HasRangeLocator(d) =>
             /\ ret[1].ok
             /\ ret[1].err[1].line_number = NumberAt(t, Colon1 + 1, Colon2 - 1)
             /\ ret[1].err[1].start_char = NumberAt(t, Colon2 + 1, d - 1)
             /\ ret[1].err[1].end_char = NumberAt(t, d + 1, Colon3 - 1)
      /\ ret[1].ok => /\ ret[1].err[1].error = t
                      /\ ret[1].err[1].category = "undefined"
\* the line x:1:1-2: has given a record at line 1, columns 1 to 2
C32_Witness ==
    /\ Returned("error_pos")
    /\ arg[1].line = <<"x", ":", "1", ":", "1", "-", "2", ":">>
    /\ HasRangeLocator(6)
    /\ ret[1].ok
    /\ ret[1].err[1].line_number = 1
    /\ ret[1].err[1].start_char = 1
    /\ ret[1].err[1].end_char = 2

\* ---- claims about tool calls that do not return (SpecHang)
\* a log file is being processed: its lines are read, or the script is in
\* a tool call started for one of them
InLogFile == pc \in {"lines", "hung"}

\* C33: the processing of a log file always comes to an end, also when a
\* call of slang or rg hangs: the call is cut off and the script goes on.
C33_LogFileProcessingEnds == InLogFile ~> ~InLogFile
\* the reading of the lines always ends: with the end of the file, with an
\* exception, or in a tool call that hangs
C33_EndsOrHangs == (pc = "lines") ~> (pc # "lines")
\* a tool call hangs on the second line of a file, after a record is kept
C33_HungState ==
    /\ pc = "hung"
    /\ nlines = 2
    /\ Len(project_errors) = 1

\* ---- claims about the order of the log files (SpecOrder)
\* the number of lines of the two log files of the call
LinesOfFile(k) == Len(arg[1].files[k].lines)
\* both orders have run to the end
BothOrdersDone == Returned("files") /\ ret[1].first.ok /\ ret[1].second.ok

\* C34: when two log files of a project are processed in the one order
\* and in the other and both runs come to their end, the records of the
\* lines of each file are the same in both runs, and so are the counts per
\* category of the project.
C34_FileOrderIrrelevant ==
    BothOrdersDone =>
      LET ab == ret[1].first.errors
          ba == ret[1].second.errors
          na == LinesOfFile(1)
          nb == LinesOfFile(2) IN
      /\ Len(ab) = na + nb /\ Len(ba) = na + nb
      /\ SubSeq(ab, 1, na) = SubSeq(ba, nb + 1, nb + na)
      /\ SubSeq(ab, na + 1, na + nb) = SubSeq(ba, 1, nb)
      /\ CountErrorTypes(ab) = CountErrorTypes(ba)
\* a file that ends in state SLANG_VERIFIED and a file whose syntax error
\* stays 'undefined' have been processed in both orders
C34_Witness ==
    /\ BothOrdersDone
    /\ ret[1].first.errors[LinesOfFile(1)].category = "slang-verified-error"
    /\ LinesOfFile(2) = 1
    /\ ret[1].first.errors[LinesOfFile(1) + 1].category = "undefined"
    /\ ret[1].second.errors[1].category = "undefined"
    /\ ret[1].second.state = SLANG_VERIFIED

\* ---- claims about log files without a source path (Spec)
\* a step that takes a log file, finds no source path for it and leaves
\* the loop over the files
UnresolvedPathStep ==
    /\ pc = "files"
    /\ nfiles' = nfiles + 1
    /\ source_path' = NoPath
    /\ pc' # "files"

\* C35: a log file whose source path cannot be resolved stops the run with
\* an error: the statistics of the project are not computed from the
\* records kept so far.
C35_UnresolvedPathIsFatal ==
    [][UnresolvedPathStep =>
         /\ pc' = "raised"
         /\ all' = all /\ error_types' = error_types]_vars

\* ---- claims about the state SLANG_VERIFIED (SpecLine)
\* a line with a locator processed in state SLANG_VERIFIED
InSlangVerified(a) == a.line.loc # <<>> /\ a.state = SLANG_VERIFIED

\* C36: for a line processed in state SLANG_VERIFIED, whatever its text,
\* error_classifier returns a category other than 'undefined', and neither
\* rg nor slang is run for it.
C36_SlangVerifiedNeedsNoTools ==
    Returned("line") /\ InSlangVerified(arg[1])
        => /\ ret[1].ok
           /\ RuleEngineCategory(arg[1]) # "undefined"
           /\ ret[1].err[1].category = RuleEngineCategory(arg[1])
           /\ ret[1].err[1].rg_output = None
           /\ ret[1].err[1].slang_output = None
\* a line without any of the phrases the rules search for, processed in
\* state SLANG_VERIFIED with tools that would answer
C36_Witness ==
    /\ Returned("line") /\ InSlangVerified(arg[1])
    /\ arg[1].line.token = None
    /\ ~arg[1].line.expanding /\ ~arg[1].line.failpath /\ ~arg[1].line.sentinel
    /\ arg[1].rg = <<"hit", "">>
    /\ arg[1].slang = <<DiagAt1, NoteLine, DiagAt2, EmptyLine>>
    /\ ret[1].ok
    /\ ret[1].err[1].category = "related-to-slang-validated-error"
    /\ ret[1].state = SLANG_VERIFIED
    /\ ret[1].err[1].rg_output = None

\* ---- claims about the transitions of the state (SpecLine)
\* the pass over the line came to its end and moved the state to st
StateEntered(st) ==
    /\ Returned("line") /\ ret[1].ok
    /\ arg[1].state # st
    /\ ret[1].state = st

\* C37: a line moves the state to NORMAL only from MODULE_DEFINE and only
\* if it is a syntax error at token endmodule; it moves the state to
\* SLANG_VERIFIED only if its record is slang-verified-error, and to
\* MACRO_CALL_SYNTAX only if its record is likely-unhandled-macro-call.
C37_StateEntries ==
    /\ StateEntered(NORMAL)
         => arg[1].state = MODULE_DEFINE /\ EndmoduleToken(arg[1])
    /\ StateEntered(SLANG_VERIFIED)
         => ret[1].err[1].category = "slang-verified-error"
    /\ StateEntered(MACRO_CALL_SYNTAX)
         => ret[1].err[1].category = "likely-unhandled-macro-call"
\* an endmodule error has moved the state from MODULE_DEFINE to NORMAL
C37_Witness ==
    /\ StateEntered(NORMAL)
    /\ arg[1].state = MODULE_DEFINE
    /\ EndmoduleToken(arg[1])
    /\ ret[1].err[1].category = "caused-by-macro-call-in-module-params"
\* a line has moved the state to SLANG_VERIFIED, another one to
\* MACRO_CALL_SYNTAX
C37_EntersSlangVerified ==
    StateEntered(SLANG_VERIFIED) /\ arg[1].state = MISC_PREPROCESSOR
C37_EntersMacroCallSyntax ==
    StateEntered(MACRO_CALL_SYNTAX) /\ arg[1].state = NORMAL

\* ---- claims about the region of a macro call in module parameters (Spec)
\* the project has no rule of its own
PlainProject == project_name \notin {"ivtest", "rsd"}

\* C38: in a project that is neither ivtest nor rsd, records
\* caused-by-macro-call-in-module-params exist only if a record
\* macro-call-in-module-params exists, and a line moves the state to
\* MODULE_DEFINE only if its record is kept as macro-call-in-module-params.
C38_CausedByNeedsMacroCall ==
    /\ [](PlainProject =>
            (Count("caused-by-macro-call-in-module-params") > 0
               => Count("macro-call-in-module-params") > 0))
    /\ [][(PlainProject /\ LineStep
           /\ state # MODULE_DEFINE /\ state' = MODULE_DEFINE)
          => /\ Len(project_errors') = Len(project_errors) + 1
             /\ project_errors'[Len(project_errors')].category
                  = "macro-call-in-module-params"]_vars
\* a macro call in module parameters and a syntax error caused by it
C38_Witness ==
    /\ PlainProject
    /\ Len(project_errors) = 2
    /\ project_errors[1].category = "macro-call-in-module-params"
    /\ project_errors[2].category = "caused-by-macro-call-in-module-params"
    /\ state = MODULE_DEFINE

\* ---- claims about the state under the project rules (SpecLine)
\* a line with a locator that one of the two project rules takes
ProjectRuleLine(a) == a.line.loc # <<>> /\ ProjectRuleApplies(a)
\* the state the rules on the token leave for the line: the one of the
\* macro call, NORMAL after endmodule in state MODULE_DEFINE, else the
\* state the line was processed in
StateAfterTokenRules(a) ==
    IF /\ a.line.token # None /\ MovedByBacktickRule(a)
    THEN (IF ModuleInWindow(a) THEN MODULE_DEFINE ELSE MISC_PREPROCESSOR)
    ELSE IF a.state = MODULE_DEFINE /\ EndmoduleToken(a) THEN NORMAL
    ELSE a.state

\* C39: a line that a project rule categorizes test-designed-to-fail or
\* hit-preprocessor-failsafe leaves the state the rules on its token made:
\* the project rules change the category only.
C39_ProjectRulesKeepState ==
    Returned("line") /\ ProjectRuleLine(arg[1])
        => /\ ret[1].ok
           /\ ret[1].err[1].category \in ProjectCategories
           /\ ret[1].state = StateAfterTokenRules(arg[1])
\* a macro call near a module in a file of ivtest named as failing: the
\* record is test-designed-to-fail and the state MODULE_DEFINE
C39_Witness ==
    /\ Returned("line") /\ ProjectRuleLine(arg[1])
    /\ arg[1].project = "ivtest"
    /\ arg[1].state = NORMAL
    /\ arg[1].line.token = Some(Tok(TRUE, "FOO"))
    /\ arg[1].path = "rtl/top.sv"
    /\ ret[1].ok
    /\ ret[1].err[1].category = "test-designed-to-fail"
    /\ ret[1].state = MODULE_DEFINE
\* an endmodule error of rsd with the sentinel ends the region
C39_RsdEndmodule ==
    /\ Returned("line") /\ ProjectRuleLine(arg[1])
    /\ arg[1].project = "rsd"
    /\ arg[1].state = MODULE_DEFINE
    /\ EndmoduleToken(arg[1])
    /\ ret[1].err[1].category = "hit-preprocessor-failsafe"
    /\ ret[1].state = NORMAL

\* ---- claims about the log of a .svh file (Spec)
\* the lines of the log of a .svh source are being read
InHeaderLog == pc = "lines" /\ Suffix4(source_path) = ".svh"
\* the categories of the macro-call rule and of the two states it enters
MacroCallCategories ==
    {"macro-call-in-module-params", "misc-preprocessor",
     "caused-by-macro-call-in-module-params", "misc-preprocessor-related"}
\* a step that appends a record while the log of a .svh source is read
HeaderRecordStep ==
    /\ InHeaderLog
    /\ Len(project_errors') = Len(project_errors) + 1

\* C40: while the log of a .svh source is read the state is neither
\* MODULE_DEFINE nor MISC_PREPROCESSOR, and no record appended for a .svh
\* source is macro-call-in-module-params, misc-preprocessor,
\* caused-by-macro-call-in-module-params or misc-preprocessor-related.
C40_HeaderNeverInMacroStates ==
    /\ [](InHeaderLog => state \notin {MODULE_DEFINE, MISC_PREPROCESSOR})
    /\ [][HeaderRecordStep =>
            project_errors'[Len(project_errors')].category
                \notin MacroCallCategories]_vars
\* the second log is the one of a .svh source, read after a macro call in
\* the first source had moved the state: its record is standalone-header
\* and the state is NORMAL
C40_Witness ==
    /\ InHeaderLog
    /\ nfiles = 2
    /\ Len(project_errors) = 2
    /\ project_errors[1].category \in MacroCallCategories
    /\ project_errors[2].category = "standalone-header"
    /\ state = NORMAL
====
